---- MODULE Spec2Model ----
(***************************************************************************)
(* Verification model of the FastCP host-provisioning and certificate      *)
(* lifecycle engine (rehmatworks/fastcp).                                  *)
(*                                                                         *)
(* The module holds several specifications over one set of variables; each *)
(* specification exercises one subsystem and leaves the variables of the   *)
(* other subsystems at their initial value:                                *)
(*   SpecSsl   certificate issuance under every failure (api/websites)     *)
(*   SpecScan  the periodic renewal scan over time (activate-ssl)          *)
(*   SpecPath  file-manager path validation (api/filemanager/serializers)  *)
(*   SpecFm    file-manager mutations of a tenant (api/filemanager/services)*)
(*   SpecSlug  slugs of the Website rows (core/models)                     *)
(*   SpecZip   names of the archives made by create_zip (core/utils)       *)
(*   SpecDb    database quota of a tenant (api/databases, api/websites)    *)
(*   SpecDom      concurrent deletions of a website's domains              *)
(*   SpecUser     password of a new system account (core/signals)          *)
(*   SpecNet      outbound requests under the network toggle               *)
(*   SpecUid      process identity around file-manager operations          *)
(*   SpecTeardown removal of a website's artifacts                         *)
(*   SpecSetupDb  engine statements of setup_db                            *)
(*   SpecSvc      restart and reload signals                               *)
(*   SpecAcct     persisted ACME account artifacts                         *)
(*   SpecTok      challenge token files of an attempt                      *)
(*   SpecVhost    vhost regeneration after an issuance                     *)
(*   SpecList     listing of a directory named by a quoted path            *)
(*   SpecMut      file-manager mutations and their path gating             *)
(*   SpecRound    archive creation followed by extraction                  *)
(*   SpecResolve  domain resolution probe                                  *)
(*   SpecDir      ACME directory chosen by the staging flag                *)
(*   SpecChall    challenges of an order and their answers                 *)
(*   SpecPhp      concurrent PHP version changes                           *)
(*   SpecFrame    artifacts of websites on disk                            *)
(***************************************************************************)
EXTENDS Integers, Sequences, FiniteSets, TLC

VARIABLES
    \* ---- certificate lifecycle (SpecSsl) ----
    domSsl,      \* Domain.ssl, per domain
    hasSsl,      \* Website.has_ssl, per website
    privKey,     \* content of <ssl_base>/priv.key per website, NoFile if absent
    certChain,   \* content of <ssl_base>/cert.chain per website
    now,         \* current time, in ticks
    scanState,   \* activate-ssl command: "idle", "running", "done", "crashed"
    scanPos,     \* number of websites the running scan has finished with
    scanLog,     \* the decision the scan took for the website it handled last
    att,         \* record of the most recent FastcpSsl.get_ssl call
    \* ---- path validation (SpecPath) ----
    reqUser,     \* the requesting user
    reqPath,     \* the raw `path` value of the request, a string of atoms
    reqSegs,     \* number of pieces appended to reqPath
    valRes,      \* result of validate_path(reqPath), NoRes before the call
    \* ---- file manager (SpecFm) ----
    fsDirs,      \* the directories that exist, as absolute normalized paths
    fsFiles,     \* the regular files that exist
    fmLast,      \* the last file-manager request and its outcome
    \* ---- website slugs (SpecSlug) ----
    sites,       \* the Website rows: records with an id, a label and a slug
    siteLog,     \* one record per save() that created a row, in order
    siteDels,    \* number of slugs released so far (row deleted or slug changed)
    \* ---- archives (SpecZip) ----
    zipFiles,    \* the archive files that exist, as absolute paths
    zipLog,      \* one record per create_zip call, in order
    \* ---- databases (SpecDb) ----
    maxDbs,      \* User.max_dbs of the tenant
    dbRows,      \* the Database rows: records with owner, name and username
    engDbs,      \* the databases that exist in the MySQL engine
    engUsers,    \* the accounts that exist in the MySQL engine
    siteCount,   \* number of Website rows of the tenant
    dbLast,      \* the last request that may create a database, and its outcome
    \* ---- domains of one website (SpecDom) ----
    domAttached, \* ids of the Domain rows attached to the website
    delReq,      \* per delete-domain request: its position and its dom_id
    vhostRegens, \* number of domains_updated signals sent so far
    \* ---- tenant provisioning (SpecUser) ----
    osAccounts,  \* per user name: how its unix account was created, NoAccount if absent
    \* ---- outbound network calls (SpecNet) ----
    netToggle,   \* value of the environment variable FASTCP_DISABLE_NETWORK
    netLog,      \* one record per outbound call attempted, in order
    \* ---- process identity (SpecUid) ----
    procCreds,   \* user and group id of the server process
    uidLog,      \* one record per file-manager operation served, in order
    \* ---- website teardown (SpecTeardown) ----
    artifacts,   \* the artifacts of the website that exist on disk
    tdLast,      \* the last delete_website call and its outcome
    \* ---- engine statements of setup_db (SpecSetupDb) ----
    sqlEngine,   \* the statements that took effect in the engine, per database
    sqlLog,      \* per database: the outcome of its setup_db call
    \* ---- service restart and reload signals (SpecSvc) ----
    svcLast,     \* the last signal handled: its list, the commands issued, the end
    \* ---- ACME account artifacts (SpecAcct) ----
    acctFiles,   \* account_key and account_resource files: 0 absent, else the id written
    acctPc,      \* per caller: position of its get_ssl call
    acctSelf,    \* FastcpSsl.acc_key and .regr as loaded by __init__
    acctClient,  \* FastcpAcme.acc_key and .regr of the client of this call
    acctCalls,   \* calls started so far
    acctLast,    \* what the call in progress, or the last one, did
    \* ---- challenge token files (SpecTok) ----
    tokDisk,     \* token files in the acme-challenge directory
    tokPaths,    \* token_paths of the attempt in progress
    tokPc,       \* position of the attempt in get_ssl
    tokN,        \* number of challenges request_ssl returned
    tokNext,     \* the result the writing loop is at
    tokAnswered, \* challenges answered by acme.get_ssl
    tokAttempt,  \* number of the attempt
    \* ---- vhost regeneration after an issuance (SpecVhost) ----
    vhHasSsl,    \* Website.has_ssl, per website
    vhFiles,     \* per website: do cert.chain and priv.key exist
    vhTemplate,  \* per website: the template of its nginx vhost file
    vhLast,      \* the last run of an entry point
    \* ---- listing of a directory (SpecList) ----
    lsDirs,      \* the directories that exist under FILE_MANAGER_ROOT
    lsFiles,     \* the regular files that exist under FILE_MANAGER_ROOT
    lsLast,      \* the last path given to FileListSerializer.validate_path
    \* ---- file-manager operations and their gate (SpecMut) ----
    mtDirs,      \* directories of the file system
    mtFiles,     \* regular files of the file system
    mtCount,     \* operations served so far
    mtLast,      \* the last operation: its path, its result, what it changed
    \* ---- archive round trip (SpecRound) ----
    rtTree,      \* the entries below the archive root
    rtLast,      \* the last create_zip / extract_zip pair
    \* ---- domain verification fetch (SpecResolve) ----
    rvToggle,    \* FASTCP_DISABLE_NETWORK in the environment
    rvLast,      \* the last is_resolving call: what the fetch gave, what it returned
    \* ---- ACME directory of a client (SpecDir) ----
    dirSetting,  \* settings.LETSENCRYPT_IS_STAGING
    dirLog,      \* per client constructed: the staging argument and the URL fetched
    \* ---- challenges of an order (SpecChall) ----
    chOrder,     \* the authorizations of the order: the challenges each offers
    chList,      \* FastcpAcme.challs_list
    chResponse,  \* FastcpAcme.response: the challenge it was computed from
    chAnswers,   \* the answer_challenge calls made: challenge and response
    chPc,        \* position of the issuance
    \* ---- PHP version changes (SpecPhp) ----
    phpDb,       \* the php column of the website's row
    phpPools,    \* per PHP version: who wrote <version>/fpm/pool.d/<slug>.conf, or "none"
    phpReq,      \* per request: position, the request's own Website object, new_version
    phpWrites,   \* the requests in the order they wrote a pool configuration
    \* ---- artifacts of websites on disk (SpecFrame) ----
    frSites,     \* the live websites: slug, php, user
    frDisk,      \* the entries on disk: path and content
    frOps,       \* operations carried out on provisioned websites
    frLast       \* the last operation: its website and the websites whose artifacts changed

sslVars == <<domSsl, hasSsl, privKey, certChain, now, scanState, scanPos, scanLog, att>>

pathVars == <<reqUser, reqPath, reqSegs, valRes>>

fmVars == <<fsDirs, fsFiles, fmLast>>

slugVars == <<sites, siteLog, siteDels>>

zipVars == <<zipFiles, zipLog>>

dbVars == <<maxDbs, dbRows, engDbs, engUsers, siteCount, dbLast>>

domVars == <<domAttached, delReq, vhostRegens>>

userVars == <<osAccounts>>

netVars == <<netToggle, netLog>>

uidVars == <<procCreds, uidLog>>

tdVars == <<artifacts, tdLast>>

sqlVars == <<sqlEngine, sqlLog>>

svcVars == <<svcLast>>

acctVars == <<acctFiles, acctPc, acctSelf, acctClient, acctCalls, acctLast>>

tokVars == <<tokDisk, tokPaths, tokPc, tokN, tokNext, tokAnswered, tokAttempt>>

vhVars == <<vhHasSsl, vhFiles, vhTemplate, vhLast>>

lsVars == <<lsDirs, lsFiles, lsLast>>

mtVars == <<mtDirs, mtFiles, mtCount, mtLast>>

rtVars == <<rtTree, rtLast>>

rvVars == <<rvToggle, rvLast>>

dirVars == <<dirSetting, dirLog>>

chVars == <<chOrder, chList, chResponse, chAnswers, chPc>>

phpVars == <<phpDb, phpPools, phpReq, phpWrites>>

frVars == <<frSites, frDisk, frOps, frLast>>

vars == <<sslVars, pathVars, fmVars, slugVars, zipVars, dbVars, domVars, userVars, netVars, uidVars, tdVars, sqlVars, svcVars, acctVars, tokVars, vhVars, lsVars, mtVars, rtVars, rvVars, dirVars, chVars, phpVars, frVars>>

\* what the actions of one subsystem leave alone
notSsl == <<pathVars, fmVars, slugVars, zipVars, dbVars, domVars, userVars, netVars, uidVars, tdVars, sqlVars, svcVars, acctVars, tokVars, vhVars, lsVars, mtVars, rtVars, rvVars, dirVars, chVars, phpVars, frVars>>
notPath == <<sslVars, fmVars, slugVars, zipVars, dbVars, domVars, userVars, netVars, uidVars, tdVars, sqlVars, svcVars, acctVars, tokVars, vhVars, lsVars, mtVars, rtVars, rvVars, dirVars, chVars, phpVars, frVars>>
notFm == <<sslVars, pathVars, slugVars, zipVars, dbVars, domVars, userVars, netVars, uidVars, tdVars, sqlVars, svcVars, acctVars, tokVars, vhVars, lsVars, mtVars, rtVars, rvVars, dirVars, chVars, phpVars, frVars>>
notSlug == <<sslVars, pathVars, fmVars, zipVars, dbVars, domVars, userVars, netVars, uidVars, tdVars, sqlVars, svcVars, acctVars, tokVars, vhVars, lsVars, mtVars, rtVars, rvVars, dirVars, chVars, phpVars, frVars>>
notZip == <<sslVars, pathVars, fmVars, slugVars, dbVars, domVars, userVars, netVars, uidVars, tdVars, sqlVars, svcVars, acctVars, tokVars, vhVars, lsVars, mtVars, rtVars, rvVars, dirVars, chVars, phpVars, frVars>>
notDb == <<sslVars, pathVars, fmVars, slugVars, zipVars, domVars, userVars, netVars, uidVars, tdVars, sqlVars, svcVars, acctVars, tokVars, vhVars, lsVars, mtVars, rtVars, rvVars, dirVars, chVars, phpVars, frVars>>
notDom == <<sslVars, pathVars, fmVars, slugVars, zipVars, dbVars, userVars, netVars, uidVars, tdVars, sqlVars, svcVars, acctVars, tokVars, vhVars, lsVars, mtVars, rtVars, rvVars, dirVars, chVars, phpVars, frVars>>
notUser == <<sslVars, pathVars, fmVars, slugVars, zipVars, dbVars, domVars, netVars, uidVars, tdVars, sqlVars, svcVars, acctVars, tokVars, vhVars, lsVars, mtVars, rtVars, rvVars, dirVars, chVars, phpVars, frVars>>
notNet == <<sslVars, pathVars, fmVars, slugVars, zipVars, dbVars, domVars, userVars, uidVars, tdVars, sqlVars, svcVars, acctVars, tokVars, vhVars, lsVars, mtVars, rtVars, rvVars, dirVars, chVars, phpVars, frVars>>
notUid == <<sslVars, pathVars, fmVars, slugVars, zipVars, dbVars, domVars, userVars, netVars, tdVars, sqlVars, svcVars, acctVars, tokVars, vhVars, lsVars, mtVars, rtVars, rvVars, dirVars, chVars, phpVars, frVars>>
notTd == <<sslVars, pathVars, fmVars, slugVars, zipVars, dbVars, domVars, userVars, netVars, uidVars, sqlVars, svcVars, acctVars, tokVars, vhVars, lsVars, mtVars, rtVars, rvVars, dirVars, chVars, phpVars, frVars>>
notSql == <<sslVars, pathVars, fmVars, slugVars, zipVars, dbVars, domVars, userVars, netVars, uidVars, tdVars, svcVars, acctVars, tokVars, vhVars, lsVars, mtVars, rtVars, rvVars, dirVars, chVars, phpVars, frVars>>
notSvc == <<sslVars, pathVars, fmVars, slugVars, zipVars, dbVars, domVars, userVars, netVars, uidVars, tdVars, sqlVars, acctVars, tokVars, vhVars, lsVars, mtVars, rtVars, rvVars, dirVars, chVars, phpVars, frVars>>
notAcct == <<sslVars, pathVars, fmVars, slugVars, zipVars, dbVars, domVars, userVars, netVars, uidVars, tdVars, sqlVars, svcVars, tokVars, vhVars, lsVars, mtVars, rtVars, rvVars, dirVars, chVars, phpVars, frVars>>
notTok == <<sslVars, pathVars, fmVars, slugVars, zipVars, dbVars, domVars, userVars, netVars, uidVars, tdVars, sqlVars, svcVars, acctVars, vhVars, lsVars, mtVars, rtVars, rvVars, dirVars, chVars, phpVars, frVars>>
notVh == <<sslVars, pathVars, fmVars, slugVars, zipVars, dbVars, domVars, userVars, netVars, uidVars, tdVars, sqlVars, svcVars, acctVars, tokVars, lsVars, mtVars, rtVars, rvVars, dirVars, chVars, phpVars, frVars>>
notLs == <<sslVars, pathVars, fmVars, slugVars, zipVars, dbVars, domVars, userVars, netVars, uidVars, tdVars, sqlVars, svcVars, acctVars, tokVars, vhVars, mtVars, rtVars, rvVars, dirVars, chVars, phpVars, frVars>>
notMt == <<sslVars, pathVars, fmVars, slugVars, zipVars, dbVars, domVars, userVars, netVars, uidVars, tdVars, sqlVars, svcVars, acctVars, tokVars, vhVars, lsVars, rtVars, rvVars, dirVars, chVars, phpVars, frVars>>
notRt == <<sslVars, pathVars, fmVars, slugVars, zipVars, dbVars, domVars, userVars, netVars, uidVars, tdVars, sqlVars, svcVars, acctVars, tokVars, vhVars, lsVars, mtVars, rvVars, dirVars, chVars, phpVars, frVars>>
notRv == <<sslVars, pathVars, fmVars, slugVars, zipVars, dbVars, domVars, userVars, netVars, uidVars, tdVars, sqlVars, svcVars, acctVars, tokVars, vhVars, lsVars, mtVars, rtVars, dirVars, chVars, phpVars, frVars>>
notDir == <<sslVars, pathVars, fmVars, slugVars, zipVars, dbVars, domVars, userVars, netVars, uidVars, tdVars, sqlVars, svcVars, acctVars, tokVars, vhVars, lsVars, mtVars, rtVars, rvVars, chVars, phpVars, frVars>>
notCh == <<sslVars, pathVars, fmVars, slugVars, zipVars, dbVars, domVars, userVars, netVars, uidVars, tdVars, sqlVars, svcVars, acctVars, tokVars, vhVars, lsVars, mtVars, rtVars, rvVars, dirVars, phpVars, frVars>>
notPhp == <<sslVars, pathVars, fmVars, slugVars, zipVars, dbVars, domVars, userVars, netVars, uidVars, tdVars, sqlVars, svcVars, acctVars, tokVars, vhVars, lsVars, mtVars, rtVars, rvVars, dirVars, chVars, frVars>>
notFrame == <<sslVars, pathVars, fmVars, slugVars, zipVars, dbVars, domVars, userVars, netVars, uidVars, tdVars, sqlVars, svcVars, acctVars, tokVars, vhVars, lsVars, mtVars, rtVars, rvVars, dirVars, chVars, phpVars>>

(***************************************************************************)
(* Bounds                                                                  *)
(***************************************************************************)
MaxNow == 2            \* the clock is advanced at most this many ticks
TicksPerDay == 2       \* resolution of the clock: ticks per day
MaxSegs == 2           \* pieces appended to the prefix of a request path
MaxCreates == 3        \* Website rows created in one behaviour
MaxZips == 4           \* create_zip calls in one behaviour
MaxRows == 3           \* Database rows that exist at one time
MaxCalls == 2          \* outbound calls recorded in one behaviour
MaxOps == 2            \* identity-switching operations recorded in one behaviour
MaxServices == 2      \* names carried by one restart or reload signal
MaxIssuances == 3     \* get_ssl calls on one host in one behaviour
MaxTokens == 3        \* challenges of one order
MaxAttempts == 3      \* issuance attempts in one behaviour
MaxQuotes == 2        \* times a client quotes a path
MaxMuts == 2          \* file-manager operations in one behaviour
MaxClients == 5       \* ACME clients constructed in one behaviour
MaxAuthz == 3         \* authorizations of one order
MaxFrameOps == 2     \* operations on provisioned websites

(***************************************************************************)
(* Strings.  A string is a sequence of atoms; an atom is one character or  *)
(* the percent-encoding of one character, possibly encoded several times:  *)
(* "/" is the separator, "%2F" its encoding, "%252F" the encoding of that. *)
(***************************************************************************)
Str(a) == <<a>>
Cat3(x, y, z) == x \o y \o z

\* urllib.parse.unquote on one atom: one level of percent-encoding is removed
Unq(a) ==
    CASE a = "%2F" -> "/"
      [] a = "%2f" -> "/"
      [] a = "%252F" -> "%2F"
      [] a = "%25252F" -> "%252F"
      [] a = "%2525252F" -> "%25252F"
      [] a = "%2E" -> "."
      [] a = "%252E" -> "%2E"
      [] a = "%20" -> " "
      [] a = "%2520" -> "%20"
      [] a = "%252520" -> "%2520"
      [] a = "%2B" -> "+"
      [] a = "%252B" -> "%2B"
      [] a = "%25252B" -> "%252B"
      [] OTHER -> a

\* urllib.parse.unquote(value)
unquote(value) == [i \in 1..Len(value) |-> Unq(value[i])]

\* serializers.py:20-25  '%25' in value or '%20' in value or '%2F' in value
\* or '%2f' in value
HasTrigger(value) ==
    \E i \in 1..Len(value) :
        value[i] \in {"%252F", "%25252F", "%2525252F", "%252E", "%20", "%2F", "%2f",
                      "%2520", "%252520", "%252B", "%25252B"}

\* serializers.py:19-31  for _ in range(3): unquote while a trigger is present
RECURSIVE DecodeLoop(_, _)
DecodeLoop(value, n) ==
    IF n = 0 THEN value
    ELSE IF HasTrigger(value)
         THEN LET new == unquote(value)
              IN  IF new = value THEN value ELSE DecodeLoop(new, n - 1)
         ELSE value

DecodePasses == 3      \* serializers.py:19  range(3)

\* str.strip()
RECURSIVE LStrip(_)
LStrip(v) == IF v # <<>> /\ Head(v) = " " THEN LStrip(Tail(v)) ELSE v
RECURSIVE RStrip(_)
RStrip(v) == IF v # <<>> /\ v[Len(v)] = " " THEN RStrip(SubSeq(v, 1, Len(v) - 1)) ELSE v
strip(v) == RStrip(LStrip(v))

\* str.startswith(prefix)
startswith(v, prefix) ==
    /\ Len(v) >= Len(prefix)
    /\ SubSeq(v, 1, Len(prefix)) = prefix

\* str.split('/')
RECURSIVE SplitFrom(_, _, _, _)
SplitFrom(v, i, cur, acc) ==
    IF i > Len(v) THEN Append(acc, cur)
    ELSE IF v[i] = "/" THEN SplitFrom(v, i + 1, <<>>, Append(acc, cur))
    ELSE SplitFrom(v, i + 1, Append(cur, v[i]), acc)
split(v) == SplitFrom(v, 1, <<>>, <<>>)

\* '/'.join(comps)
RECURSIVE join(_)
join(comps) ==
    IF comps = <<>> THEN <<>>
    ELSE IF Len(comps) = 1 THEN comps[1]
    ELSE comps[1] \o <<"/">> \o join(Tail(comps))

DotDot == <<".", ".">>
Dot == <<".">>

\* posixpath.normpath: the loop over the components
RECURSIVE NormComps(_, _, _)
NormComps(comps, initial_slashes, new_comps) ==
    IF comps = <<>> THEN new_comps
    ELSE LET comp == Head(comps)
             rest == Tail(comps)
         IN  IF comp \in {<<>>, Dot}
               THEN NormComps(rest, initial_slashes, new_comps)
             ELSE IF \/ comp # DotDot
                     \/ (initial_slashes = 0 /\ new_comps = <<>>)
                     \/ (new_comps # <<>> /\ new_comps[Len(new_comps)] = DotDot)
               THEN NormComps(rest, initial_slashes, Append(new_comps, comp))
             ELSE IF new_comps # <<>>
               THEN NormComps(rest, initial_slashes,
                              SubSeq(new_comps, 1, Len(new_comps) - 1))
             ELSE NormComps(rest, initial_slashes, new_comps)

\* posixpath.normpath(path)
normpath(path) ==
    IF path = <<>> THEN Dot
    ELSE LET initial_slashes ==
                 IF ~startswith(path, <<"/">>) THEN 0
                 ELSE IF startswith(path, <<"/", "/">>) /\ ~startswith(path, <<"/", "/", "/">>)
                      THEN 2 ELSE 1
             body == join(NormComps(split(path), initial_slashes, <<>>))
             res == (IF initial_slashes = 2 THEN <<"/", "/">>
                     ELSE IF initial_slashes = 1 THEN <<"/">> ELSE <<>>) \o body
         IN  IF res = <<>> THEN Dot ELSE res

\* os.path.join(a, b)
pathjoin(a, b) ==
    IF startswith(b, <<"/">>) THEN b
    ELSE IF a = <<>> \/ a[Len(a)] = "/" THEN a \o b
    ELSE a \o <<"/">> \o b

(***************************************************************************)
(* File manager: users and path validation                                 *)
(***************************************************************************)
\* settings.FILE_MANAGER_ROOT, a directory two levels below / (base_service.py:28
\* takes the user name from path.split('/')[3])
FILE_MANAGER_ROOT == <<"/", "s", "/", "u">>

\* users: two tenants, a tenant whose name extends another's, an administrator
Alice == [username |-> <<"a">>, is_superuser |-> FALSE]
Bob == [username |-> <<"b">>, is_superuser |-> FALSE]
Abby == [username |-> <<"a", "b">>, is_superuser |-> FALSE]
Admin == [username |-> <<"r">>, is_superuser |-> TRUE]

\* filesystem.py:96-108  get_user_path(user)
get_user_path(user) ==
    IF user.is_superuser THEN FILE_MANAGER_ROOT
    ELSE pathjoin(FILE_MANAGER_ROOT, user.username)

NoRes == [ok |-> FALSE, called |-> FALSE, value |-> <<>>]
Rejected == [ok |-> FALSE, called |-> TRUE, value |-> <<>>]
Accepted(v) == [ok |-> TRUE, called |-> TRUE, value |-> v]

\* serializers.py:12-49  ValidPathSerializer.validate_path(value)
validate_path(value) ==
    IF value = <<>> THEN Accepted(value)
    ELSE LET decoded == DecodeLoop(value, DecodePasses)
             norm == normpath(strip(decoded))
         IN  IF ~startswith(norm, FILE_MANAGER_ROOT) THEN Rejected
             ELSE Accepted(norm)

(***************************************************************************)
(* The value of each subsystem's variables while another one is exercised  *)
(***************************************************************************)
SslIdle ==
    /\ domSsl = [d \in {} |-> FALSE]
    /\ hasSsl = [w \in {} |-> FALSE]
    /\ privKey = [w \in {} |-> ""]
    /\ certChain = [w \in {} |-> ""]
    /\ now = 0
    /\ scanState = "idle"
    /\ scanPos = 0
    /\ scanLog = [w |-> "none"]
    /\ att = [w |-> "none"]

PathIdle ==
    /\ reqUser = Alice
    /\ reqPath = <<>>
    /\ reqSegs = 0
    /\ valRes = NoRes

NoReq == [op |-> "none", user |-> Alice, ok |-> FALSE]

FmIdle ==
    /\ fsDirs = {}
    /\ fsFiles = {}
    /\ fmLast = NoReq

SlugIdle ==
    /\ sites = {}
    /\ siteLog = <<>>
    /\ siteDels = 0

ZipIdle ==
    /\ zipFiles = {}
    /\ zipLog = <<>>

DbIdle ==
    /\ maxDbs = 0
    /\ dbRows = {}
    /\ engDbs = {}
    /\ engUsers = {}
    /\ siteCount = 0
    /\ dbLast = [op |-> "none", before |-> 0, rejected |-> FALSE, rows |-> 0, stmts |-> 0]

\* every subsystem but g rests
DomIdle ==
    /\ domAttached = {}
    /\ delReq = <<>>
    /\ vhostRegens = 0

UserIdle ==
    /\ osAccounts = <<>>

NetIdle ==
    /\ netToggle = "unset"
    /\ netLog = <<>>

UidIdle ==
    /\ procCreds = [uid |-> 0, gid |-> 0]
    /\ uidLog = <<>>

TdIdle ==
    /\ artifacts = {}
    /\ tdLast = [ran |-> FALSE, before |-> {}, fails |-> {}, after |-> {},
                 steps |-> 0, raised |-> FALSE]

SqlIdle ==
    /\ sqlEngine = {}
    /\ sqlLog = <<>>

SvcIdle ==
    /\ svcLast = [topic |-> "none", services |-> <<>>, issued |-> <<>>, raised |-> FALSE]

AcctIdle ==
    /\ acctFiles = [key |-> 0, regr |-> 0]
    /\ acctPc = <<>>
    /\ acctSelf = <<>>
    /\ acctClient = <<>>
    /\ acctCalls = 0
    /\ acctLast = <<>>

TokIdle ==
    /\ tokDisk = {}
    /\ tokPaths = <<>>
    /\ tokPc = "idle"
    /\ tokN = 0
    /\ tokNext = 0
    /\ tokAnswered = 0
    /\ tokAttempt = 0

VhIdle ==
    /\ vhHasSsl = <<>>
    /\ vhFiles = <<>>
    /\ vhTemplate = <<>>
    /\ vhLast = [entry |-> "none"]

LsIdle ==
    /\ lsDirs = {}
    /\ lsFiles = {}
    /\ lsLast = [called |-> FALSE]

MtIdle ==
    /\ mtDirs = {}
    /\ mtFiles = {}
    /\ mtCount = 0
    /\ mtLast = [op |-> "none"]

RtIdle ==
    /\ rtTree = {}
    /\ rtLast = [ran |-> FALSE]

RvIdle ==
    /\ rvToggle = "unset"
    /\ rvLast = [called |-> FALSE]

DirIdle ==
    /\ dirSetting = FALSE
    /\ dirLog = <<>>

ChIdle ==
    /\ chOrder = <<>>
    /\ chList = <<>>
    /\ chResponse = "none"
    /\ chAnswers = <<>>
    /\ chPc = "idle"

PhpIdle ==
    /\ phpDb = "none"
    /\ phpPools = <<>>
    /\ phpReq = <<>>
    /\ phpWrites = <<>>

FrameIdle ==
    /\ frSites = {}
    /\ frDisk = {}
    /\ frOps = 0
    /\ frLast = [op |-> "none"]

OthersIdle(g) ==
    /\ IF g = "ssl" THEN TRUE ELSE SslIdle
    /\ IF g = "path" THEN TRUE ELSE PathIdle
    /\ IF g = "fm" THEN TRUE ELSE FmIdle
    /\ IF g = "slug" THEN TRUE ELSE SlugIdle
    /\ IF g = "zip" THEN TRUE ELSE ZipIdle
    /\ IF g = "db" THEN TRUE ELSE DbIdle
    /\ IF g = "dom" THEN TRUE ELSE DomIdle
    /\ IF g = "user" THEN TRUE ELSE UserIdle
    /\ IF g = "net" THEN TRUE ELSE NetIdle
    /\ IF g = "uid" THEN TRUE ELSE UidIdle
    /\ IF g = "td" THEN TRUE ELSE TdIdle
    /\ IF g = "sql" THEN TRUE ELSE SqlIdle
    /\ IF g = "svc" THEN TRUE ELSE SvcIdle
    /\ IF g = "acct" THEN TRUE ELSE AcctIdle
    /\ IF g = "tok" THEN TRUE ELSE TokIdle
    /\ IF g = "vh" THEN TRUE ELSE VhIdle
    /\ IF g = "ls" THEN TRUE ELSE LsIdle
    /\ IF g = "mt" THEN TRUE ELSE MtIdle
    /\ IF g = "rt" THEN TRUE ELSE RtIdle
    /\ IF g = "rv" THEN TRUE ELSE RvIdle
    /\ IF g = "dir" THEN TRUE ELSE DirIdle
    /\ IF g = "ch" THEN TRUE ELSE ChIdle
    /\ IF g = "php" THEN TRUE ELSE PhpIdle
    /\ IF g = "fr" THEN TRUE ELSE FrameIdle

(***************************************************************************)
(* File manager: the filesystem as the operating system resolves it        *)
(***************************************************************************)
\* the absolute path with the given components
Abs(comps) == <<"/">> \o join(comps)

\* `path` is `root` or lies below it (both absolute and normalized)
Below(path, root) ==
    \/ path = root
    \/ startswith(path, IF root = <<"/">> THEN root ELSE root \o <<"/">>)

\* path resolution by the kernel (no symbolic links): every component that
\* is followed by another one must be an existing directory
RECURSIVE Walk(_, _, _)
Walk(comps, cur, dirs) ==
    IF comps = <<>> THEN [ok |-> TRUE, p |-> Abs(cur)]
    ELSE LET c == Head(comps)
         IN  IF c \in {<<>>, Dot} THEN Walk(Tail(comps), cur, dirs)
             ELSE IF Abs(cur) \notin dirs THEN [ok |-> FALSE, p |-> <<>>]
             ELSE IF c = DotDot
               THEN Walk(Tail(comps),
                         IF cur = <<>> THEN cur ELSE SubSeq(cur, 1, Len(cur) - 1), dirs)
             ELSE Walk(Tail(comps), Append(cur, c), dirs)

OsResolve(raw, dirs) ==
    IF ~startswith(raw, <<"/">>) THEN [ok |-> FALSE, p |-> <<>>]
    ELSE Walk(split(raw), <<>>, dirs)

\* os.path.isdir / os.path.isfile / os.path.exists
isdir(raw, dirs) == LET r == OsResolve(raw, dirs) IN r.ok /\ r.p \in dirs
isfile(raw, dirs, files) == LET r == OsResolve(raw, dirs) IN r.ok /\ r.p \in files
exists(raw, dirs, files) == isdir(raw, dirs) \/ isfile(raw, dirs, files)

\* the proper ancestors of a normalized absolute path, and the path itself
RECURSIVE PrefixDirs(_, _)
PrefixDirs(comps, n) ==
    IF n = 0 THEN {} ELSE {Abs(SubSeq(comps, 1, n))} \cup PrefixDirs(comps, n - 1)
Ancestry(path) ==
    LET comps == NormComps(split(path), 1, <<>>) IN PrefixDirs(comps, Len(comps))

(***************************************************************************)
(* File manager: services                                                  *)
(***************************************************************************)
\* delete_items.py:30-43  the loop over the paths of the request
RECURSIVE DeleteLoop(_, _, _, _)
DeleteLoop(paths, user, dirs, files) ==
    IF paths = <<>> THEN [dirs |-> dirs, files |-> files]
    ELSE LET path == Head(paths)
             BASE_PATH == IF user.is_superuser THEN FILE_MANAGER_ROOT
                          ELSE pathjoin(FILE_MANAGER_ROOT, user.username)
             r == OsResolve(path, dirs)
         IN  IF ~startswith(path, BASE_PATH)
               THEN DeleteLoop(Tail(paths), user, dirs, files)
             ELSE IF isdir(path, dirs)          \* shutil.rmtree(path)
               THEN DeleteLoop(Tail(paths), user,
                               {d \in dirs : ~Below(d, r.p)},
                               {f \in files : ~Below(f, r.p)})
             ELSE IF isfile(path, dirs, files)  \* os.remove(path)
               THEN DeleteLoop(Tail(paths), user, dirs, files \ {r.p})
             ELSE DeleteLoop(Tail(paths), user, dirs, files)

\* create_item.py:24-49  CreateItemService.create_item; `path` is the value the
\* serializer returned, <<>> when the field is absent
create_item(user, path, item_type, item_name, dirs, files) ==
    LET BASE_PATH == get_user_path(user)
        root_path == IF path # <<>> /\ startswith(path, BASE_PATH) THEN path ELSE BASE_PATH
        new_path == pathjoin(root_path, item_name)
        r == OsResolve(new_path, dirs)
        unchanged == [ok |-> FALSE, dirs |-> dirs, files |-> files]
    IN  IF exists(new_path, dirs, files) THEN unchanged
        ELSE IF item_type = "file"
          THEN IF r.ok /\ r.p # <<"/">>           \* open(new_path, 'a').close()
                 THEN [ok |-> TRUE, dirs |-> dirs, files |-> files \cup {r.p}]
                 ELSE unchanged
        ELSE IF \E a \in Ancestry(new_path) : a \in files
          THEN unchanged                          \* os.makedirs raises
        ELSE [ok |-> TRUE, dirs |-> dirs \cup Ancestry(new_path), files |-> files]

\* the tree the file manager starts from: the home directories of the tenants
\* a, b and ab under FILE_MANAGER_ROOT, and a system directory outside
InitDirs == {<<"/">>, <<"/", "s">>, FILE_MANAGER_ROOT,
             get_user_path(Alice), get_user_path(Bob), get_user_path(Abby),
             pathjoin(get_user_path(Alice), <<"p">>),
             <<"/", "e">>}
InitFiles == {pathjoin(pathjoin(get_user_path(Alice), <<"p">>), <<"x">>),
              pathjoin(get_user_path(Bob), <<"y">>),
              pathjoin(get_user_path(Abby), <<"z">>),
              <<"/", "e", "/", "c">>}

\* the raw paths a tenant sends in `paths`, and the names sent in `item_name`
RawPaths == {pathjoin(get_user_path(Alice), <<"p">>),
             pathjoin(get_user_path(Alice), <<"n">>),
             pathjoin(get_user_path(Bob), <<"y">>),
             pathjoin(get_user_path(Alice), <<".", ".", "/", "b", "/", "y">>),
             pathjoin(get_user_path(Abby), <<"z">>),
             <<"/", "e", "/", "c">>}
ItemNames == {<<"n">>, <<".", ".", "/", "b", "/", "n">>, <<"/", "e", "/", "n">>}
ItemPaths == {<<>>, pathjoin(get_user_path(Alice), <<"p">>),
              get_user_path(Bob), get_user_path(Abby)}
\* `paths` holds one path, or two of which the first is a directory of the
\* tenant or a file of another tenant
FirstPaths == {pathjoin(get_user_path(Alice), <<"p">>), pathjoin(get_user_path(Bob), <<"y">>)}
PathLists == {<<x>> : x \in RawPaths} \cup {<<x, y>> : x \in FirstPaths, y \in RawPaths}

\* views.py:207-219 and delete_items.py:15-46  DeleteItemsView.post
DeleteItems(user) ==
    \E paths \in PathLists :
        LET r == DeleteLoop(paths, user, fsDirs, fsFiles)
        IN  /\ fsDirs' = r.dirs
            /\ fsFiles' = r.files
            /\ fmLast' = [op |-> "delete", user |-> user, ok |-> TRUE]
            /\ UNCHANGED notFm

\* views.py:113-130 and create_item.py:15-49  FileObjectView.post
CreateItem(user) ==
    \E raw \in ItemPaths, item_type \in {"file", "directory"}, item_name \in ItemNames :
        LET v == validate_path(raw)
            r == create_item(user, v.value, item_type, item_name, fsDirs, fsFiles)
        IN  /\ UNCHANGED notFm
            /\ IF ~v.ok
                 THEN /\ fmLast' = [op |-> "create", user |-> user, ok |-> FALSE]
                      /\ UNCHANGED <<fsDirs, fsFiles>>
                 ELSE /\ fsDirs' = r.dirs
                      /\ fsFiles' = r.files
                      /\ fmLast' = [op |-> "create", user |-> user, ok |-> r.ok]

InitFm ==
    /\ OthersIdle("fm")
    /\ fsDirs = InitDirs
    /\ fsFiles = InitFiles
    /\ fmLast = NoReq

NextFm ==
    \/ DeleteItems(Alice)
    \/ CreateItem(Alice)

SpecFm == InitFm /\ [][NextFm]_vars

\* the request paths explored: a prefix followed by pieces, each piece a
\* separator (plain or percent-encoded one, two or four times) and a name
PathPrefixes == {<<>>, <<"/", "s">>, FILE_MANAGER_ROOT,
                 get_user_path(Alice), <<" ">> \o FILE_MANAGER_ROOT}
PathSeps == {"/", "%2F", "%252F", "%2525252F"}
PathNames == {<<"a">>, <<"b">>, <<"a", "b">>, DotDot, <<"%2E", "%2E">>, <<"u", "x">>}

\* a client composes the `path` parameter of a request
PathAppend ==
    /\ ~valRes.called
    /\ reqSegs < MaxSegs
    /\ \E sep \in PathSeps, name \in PathNames :
          reqPath' = reqPath \o <<sep>> \o name
    /\ reqSegs' = reqSegs + 1
    /\ UNCHANGED <<reqUser, valRes, notPath>>

\* serializers.py:12-49  the serializer validates the `path` field
Validate ==
    /\ ~valRes.called
    /\ valRes' = validate_path(reqPath)
    /\ UNCHANGED <<reqUser, reqPath, reqSegs, notPath>>

InitPath ==
    /\ OthersIdle("path")
    /\ reqUser \in {Alice, Admin}
    /\ reqPath \in PathPrefixes
    /\ reqSegs = 0
    /\ valRes = NoRes

NextPath ==
    \/ PathAppend
    \/ Validate

SpecPath == InitPath /\ [][NextPath]_vars

(***************************************************************************)
(* Website slugs                                                           *)
(***************************************************************************)
Digits == <<"0", "1", "2", "3", "4", "5", "6", "7", "8", "9">>

\* str(i) for a natural number
RECURSIVE Decimal(_)
Decimal(i) ==
    IF i < Len(Digits) THEN <<Digits[i + 1]>>
    ELSE Decimal(i \div Len(Digits)) \o <<Digits[(i % Len(Digits)) + 1]>>

\* django slugify: lower-case, drop what is neither a word character, white
\* space nor a hyphen, turn each run of hyphens and white space into one
\* hyphen, strip the hyphens at both ends
Lower(a) == IF a = "S" THEN "s" ELSE IF a = "T" THEN "t" ELSE a
WordAtoms == {"s", "t", "1", "2", "_"}
RECURSIVE Hyphenate(_, _)
Hyphenate(v, acc) ==
    IF v = <<>> THEN acc
    ELSE IF Head(v) \in {"-", " "}
      THEN Hyphenate(Tail(v), IF acc # <<>> /\ acc[Len(acc)] = "-" THEN acc
                                                                   ELSE Append(acc, "-"))
    ELSE Hyphenate(Tail(v), Append(acc, Head(v)))
RECURSIVE StripHyphens(_)
StripHyphens(v) ==
    IF v # <<>> /\ Head(v) = "-" THEN StripHyphens(Tail(v))
    ELSE IF v # <<>> /\ v[Len(v)] = "-" THEN StripHyphens(SubSeq(v, 1, Len(v) - 1))
    ELSE v
slugify(value) ==
    LET lowered == [i \in 1..Len(value) |-> Lower(value[i])]
        kept == SelectSeq(lowered, LAMBDA a : a \in WordAtoms \cup {"-", " "})
    IN  StripHyphens(Hyphenate(kept, <<>>))

\* models.py:170-172  the candidate of round i
SlugAt(base, i) == IF i > 0 THEN base \o <<"-">> \o Decimal(i) ELSE base

\* models.py:169-175  the loop: the first round whose candidate no row holds
RECURSIVE SlugLoop(_, _, _)
SlugLoop(base, i, taken) ==
    IF SlugAt(base, i) \notin taken THEN i ELSE SlugLoop(base, i + 1, taken)

\* models.py:168  i = 0
FirstRound == 0

\* the loop entered at round 1: the bare base is never tried
SaveSlug_FromOne(label, slug, taken) ==
    IF slug # <<>> THEN slug
    ELSE SlugAt(slugify(label), SlugLoop(slugify(label), FirstRound + 1, taken))

\* models.py:165-177  Website.save: the slug the row is stored with
SaveSlug(label, slug, taken) ==
    IF slug # <<>> THEN slug
    ELSE SlugAt(slugify(label), SlugLoop(slugify(label), FirstRound, taken))

Labels == {<<"s">>, <<"S">>, <<"s", " ", "1">>, <<"s", "!">>, <<"!">>}

SlugsOf(rows) == {w.slug : w \in rows}

\* Website.objects.create(label=...): save() of a new row; models.py:145 the
\* label is unique, a request with the label of a stored row is refused
CreateWebsite ==
    /\ Len(siteLog) < MaxCreates
    /\ \E label \in Labels :
          /\ \A w \in sites : w.label # label
          /\ LET taken == SlugsOf(sites)
                 base == slugify(label)
                 slug == SaveSlug(label, <<>>, taken)
                 i == SlugLoop(base, FirstRound, taken)
             IN  /\ sites' = sites \cup {[id |-> Len(siteLog) + 1, label |-> label, slug |-> slug]}
                 /\ siteLog' = Append(siteLog, [base |-> base, sfx |-> i, slug |-> slug,
                                                taken |-> taken, freed |-> siteDels])
    /\ UNCHANGED <<siteDels, notSlug>>

\* save() of a stored row (an update, or website.save() in the WordPress path)
SaveWebsite ==
    /\ \E w \in sites :
          LET slug == SaveSlug(w.label, w.slug, SlugsOf(sites))
          IN  /\ slug # w.slug
              /\ sites' = (sites \ {w}) \cup {[w EXCEPT !.slug = slug]}
              /\ siteDels' = siteDels + 1
    /\ UNCHANGED <<siteLog, notSlug>>

\* a Website row is deleted
DeleteWebsite ==
    /\ \E w \in sites : sites' = sites \ {w}
    /\ siteDels' = siteDels + 1
    /\ UNCHANGED <<siteLog, notSlug>>

InitSlug ==
    /\ OthersIdle("slug")
    /\ sites = {}
    /\ siteLog = <<>>
    /\ siteDels = 0

NextSlug ==
    \/ CreateWebsite
    \/ SaveWebsite
    \/ DeleteWebsite

SpecSlug == InitSlug /\ [][NextSlug]_vars

(***************************************************************************)
(* Archives                                                                *)
(***************************************************************************)
ZipExt == ".zip"

\* str.replace('.zip', f'-{i}.zip'): every occurrence is replaced
RECURSIVE ReplaceZip(_, _)
ReplaceZip(v, i) ==
    IF v = <<>> THEN <<>>
    ELSE (IF Head(v) = ZipExt THEN <<"-">> \o Decimal(i) \o <<ZipExt>> ELSE <<Head(v)>>)
         \o ReplaceZip(Tail(v), i)

\* the directories archives are made in
ZipDirs == {<<"/", "d">>, <<"/", "d", ZipExt>>}
ZipSeeds == {<<"n", ZipExt>>, <<"m", ZipExt>>}

\* filesystem.py:38-54  the loop that looks for a name no file has
RECURSIVE ZipLoop(_, _, _)
ZipLoop(zip_root, i, files) ==
    IF zip_root \notin files \cup ZipDirs THEN zip_root
    ELSE ZipLoop(ReplaceZip(zip_root, i), i + 1, files)

\* filesystem.py:39  i = 1
FirstZipRound == 1

\* zipfile.ZipFile(zip_root, 'w') needs the directory of zip_root
ZipOpens(zip_root) ==
    \E d \in ZipDirs :
        /\ startswith(zip_root, d \o <<"/">>)
        /\ \A k \in (Len(d) + 2)..Len(zip_root) : zip_root[k] # "/"

\* filesystem.py:24-69  create_zip(root_path, file_name)
CreateZip ==
    /\ Len(zipLog) < MaxZips
    /\ \E root_path \in ZipDirs, file_name \in ZipSeeds :
          LET zip_root == ZipLoop(pathjoin(root_path, file_name), FirstZipRound, zipFiles)
              entry == [root |-> root_path, seed |-> file_name, path |-> zip_root,
                        existed |-> zip_root \in zipFiles, raised |-> ~ZipOpens(zip_root)]
          IN  /\ zipFiles' = IF ZipOpens(zip_root) THEN zipFiles \cup {zip_root} ELSE zipFiles
              /\ zipLog' = Append(zipLog, entry)
    /\ UNCHANGED notZip

InitZip ==
    /\ OthersIdle("zip")
    /\ zipFiles = {}
    /\ zipLog = <<>>

NextZip == CreateZip

SpecZip == InitZip /\ [][NextZip]_vars

(***************************************************************************)
(* Databases                                                               *)
(***************************************************************************)
Tenant == [username |-> "t", is_superuser |-> FALSE]
Root == [username |-> "admin", is_superuser |-> TRUE]

\* User.max_sites of the tenant
MaxSitesQuota == 2

\* databases/serializers.py:7-8
DISALLOWED_NAMES == {<<"root">>, <<"mysql">>}
DbNames == {<<"d">>, <<"wp_db">>, <<"root">>}
DbUsernames == {<<"u">>, <<"wp_user">>}
\* the ssh_user field of an administrator's request
SshUsers == {"", "root", "t", "x"}

OwnedBy(rows, name) == {r \in rows : r.owner = name}

\* the owner both create() methods resolve: the tenant itself, or the user an
\* administrator names; "" when the request is refused
ResolveOwner(user, ssh_user) ==
    IF ~user.is_superuser THEN user.username
    ELSE IF ssh_user = "" \/ ssh_user = "root" THEN ""
    ELSE IF ssh_user = Tenant.username THEN ssh_user ELSE ""

\* mysql.py:42-68  setup_db: the statements that create accounts and schema
SetupDb(row, dbs, users) == [dbs |-> dbs \cup {row.name}, users |-> users \cup {row.username}]

NoDbReq == [op |-> "none", before |-> 0, rejected |-> FALSE, rows |-> 0, stmts |-> 0]

\* databases/serializers.py:16-61 and views: POST to the database endpoint
CreateDatabase(user) ==
    \E name \in DbNames, username \in DbUsernames, ssh_user \in SshUsers :
        LET owner == ResolveOwner(user, ssh_user)
            before == Cardinality(OwnedBy(dbRows, owner))
            invalid == \/ name \in DISALLOWED_NAMES
                       \/ username \in DISALLOWED_NAMES
                       \/ \E r \in dbRows : r.name = name \/ r.username = username
            refused == invalid \/ owner = "" \/ before >= maxDbs
            row == [owner |-> owner, name |-> name, username |-> username]
            eng == SetupDb(row, engDbs, engUsers)
        IN  /\ (user.is_superuser \/ ssh_user = "")
            /\ (~refused => Cardinality(dbRows) < MaxRows)
            /\ dbLast' = [op |-> "db", before |-> before, rejected |-> refused,
                          rows |-> IF refused THEN 0 ELSE 1,
                          stmts |-> IF refused THEN 0 ELSE 1]
            /\ IF refused
                 THEN UNCHANGED <<dbRows, engDbs, engUsers>>
                 ELSE /\ dbRows' = dbRows \cup {row}
                      /\ engDbs' = eng.dbs
                      /\ engUsers' = eng.users
            /\ UNCHANGED <<maxDbs, siteCount, notDb>>

\* websites/serializers.py:117-125  the loop that picks wp_db, wp_db1, wp_db2, ...
RECURSIVE WpLoop(_, _, _)
WpLoop(i, isStr, rows) ==
    LET sfx == IF isStr THEN <<>> ELSE Decimal(i)
        dbname == <<"wp_db">> \o sfx
        dbuser == <<"wp_user">> \o sfx
        j == IF isStr THEN 0 ELSE i
    IN  IF \A r \in rows : r.name # dbname /\ r.username # dbuser
          THEN [name |-> dbname, username |-> dbuser]
          ELSE WpLoop(j + 1, FALSE, rows)

\* websites/serializers.py:72-134  WebsiteSerializer.create
CreateSite(user) ==
    \E is_wp \in BOOLEAN, ssh_user \in SshUsers :
        LET owner == ResolveOwner(user, ssh_user)
            before == Cardinality(OwnedBy(dbRows, owner))
            refused == owner = "" \/ siteCount >= MaxSitesQuota
            names == WpLoop(0, TRUE, dbRows)
            row == [owner |-> owner, name |-> names.name, username |-> names.username]
            eng == SetupDb(row, engDbs, engUsers)
            makesDb == ~refused /\ is_wp
        IN  /\ (user.is_superuser \/ ssh_user = "")
            /\ (makesDb => Cardinality(dbRows) < MaxRows)
            /\ siteCount' = IF refused THEN siteCount ELSE siteCount + 1
            /\ dbLast' = [op |-> IF is_wp THEN "site_wp" ELSE "site", before |-> before,
                          rejected |-> refused,
                          rows |-> IF makesDb THEN 1 ELSE 0,
                          stmts |-> IF makesDb THEN 1 ELSE 0]
            /\ IF makesDb
                 THEN /\ dbRows' = dbRows \cup {row}
                      /\ engDbs' = eng.dbs
                      /\ engUsers' = eng.users
                 ELSE UNCHANGED <<dbRows, engDbs, engUsers>>
            /\ UNCHANGED <<maxDbs, notDb>>

\* a Database row is deleted: signals.py:107-109 and system.py:272-284 drop_db
DeleteDatabase ==
    /\ \E r \in dbRows :
          /\ dbRows' = dbRows \ {r}
          /\ engDbs' = engDbs \ {r.name}
          /\ engUsers' = engUsers \ {r.username}
    /\ dbLast' = NoDbReq
    /\ UNCHANGED <<maxDbs, siteCount, notDb>>

\* a Website row of the tenant is deleted; its database stays
DeleteSite ==
    /\ siteCount > 0
    /\ siteCount' = siteCount - 1
    /\ dbLast' = NoDbReq
    /\ UNCHANGED <<maxDbs, dbRows, engDbs, engUsers, notDb>>

InitDb ==
    /\ OthersIdle("db")
    /\ maxDbs \in {1, 2}
    /\ dbRows = {}
    /\ engDbs = {}
    /\ engUsers = {}
    /\ siteCount = 0
    /\ dbLast = NoDbReq

NextDb ==
    \/ CreateDatabase(Tenant)
    \/ CreateDatabase(Root)
    \/ CreateSite(Tenant)
    \/ CreateSite(Root)
    \/ DeleteDatabase
    \/ DeleteSite

SpecDb == InitDb /\ [][NextDb]_vars

(***************************************************************************)
(* Certificate lifecycle: data                                             *)
(***************************************************************************)
NoFile  == "nofile"    \* os.path.exists(path) is False
Corrupt == "corrupt"   \* the file exists but holds no PEM certificate
EmptyStr == ""         \* Python ''

RenewDays == 30        \* system.py:341  delta.days <= 30

\* Website.objects.all() in iteration order, and website.domains.all()
WebsiteOrder == <<"w1", "w2">>
Websites == {WebsiteOrder[i] : i \in 1..Len(WebsiteOrder)}
DomainList(w) == IF w = "w1" THEN <<"d1", "d2">> ELSE <<"d3">>
DomainsOf(w) == {DomainList(w)[i] : i \in 1..Len(DomainList(w))}
Domains == UNION {DomainsOf(w) : w \in Websites}

\* private keys: the one installed with an earlier certificate, and the one
\* OpenSSL generates when asked for a new key
OldKey == "k0"
FreshKey == "k1"
\* validity (in ticks) of a certificate the CA hands out: about to expire,
\* a fraction of a day more than RenewDays, and a full day more than RenewDays
CertLifetimes == {1, RenewDays * TicksPerDay + 1, (RenewDays + 1) * TicksPerDay}

\* the steps of one issuance attempt at which the environment can fail
\* ("_trunc": the file was opened for writing, hence emptied, before the error)
FailPoints == {"none", "paths", "acme_init", "new_order", "write_token",
               "finalize", "write_key", "write_key_trunc", "write_cert",
               "write_cert_trunc", "post_update"}

\* The environments the certificate specifications are explored under: the
\* failures that can happen, the lifetimes the CA grants, and the sets of
\* domains of a website that can be found resolving.
IssueEnv == [fails |-> FailPoints,
             lifetimes |-> {(RenewDays + 1) * TicksPerDay},
             partial |-> TRUE]
ScanEnv == [fails |-> {"none", "finalize", "write_cert_trunc"},
            lifetimes |-> CertLifetimes,
            partial |-> FALSE]
Resolvings(E, w) == IF E.partial THEN SUBSET DomainsOf(w) ELSE {{}, DomainsOf(w)}

NoCert == [st |-> NoFile, notAfter |-> 0]
BadCert == [st |-> Corrupt, notAfter |-> 0]
ValidCert(t) == [st |-> "valid", notAfter |-> t]

NoAttempt == [w |-> "none", resolving |-> {}, sslBefore |-> {}, keyBefore |-> NoFile,
              csrTried |-> FALSE, order |-> <<>>, placed |-> FALSE, csrKey |-> EmptyStr,
              generated |-> FALSE, finalized |-> FALSE, wroteKey |-> FALSE,
              wroteCert |-> FALSE, raised |-> FALSE, ret |-> FALSE]

NoLog == [w |-> "none", act |-> "pending", needs |-> FALSE, certSt |-> NoFile, left |-> 0]

(***************************************************************************)
(* Certificate lifecycle: FastcpAcme and FastcpSsl                         *)
(***************************************************************************)
\* Python values that travel as the private key: None, bytes, str
PyNoneVal == [t |-> "none", v |-> EmptyStr]
PyBytes(x) == [t |-> "bytes", v |-> x]
PyStr(x) == [t |-> "str", v |-> x]

\* ssl.py:102-107  priv_key = f.read() if priv.key exists else None
ReadPrivKey(w) == IF privKey[w] # NoFile THEN PyBytes(privKey[w]) ELSE PyNoneVal

\* ssl.py:139-146  pk_arg = '' unless priv_key is bytes (decoded) or str
PkArg(priv_key) ==
    IF priv_key.t = "bytes" THEN PyStr(priv_key.v)
    ELSE IF priv_key.t = "str" THEN priv_key
    ELSE PyStr(EmptyStr)

\* fcp_acme.py:97-117  _generate_csr: a key is generated only for None;
\* crypto_util.make_csr raises unless the key is a PEM private key
generate_csr(domains, priv_key) ==
    LET key == IF priv_key.t = "none" THEN PyBytes(FreshKey) ELSE priv_key
    IN [priv_key |-> key,
        generated |-> (priv_key.t = "none"),
        raises |-> (key.v = EmptyStr),
        domains |-> domains]

\* mutant: every attached domain is put in the order, resolving or not
VerifiedDomains_All(w, resolving) == DomainList(w)

\* ssl.py:90-93  verified_domains: the attached domains that resolve, in order
VerifiedDomains(w, resolving) ==
    SelectSeq(DomainList(w), LAMBDA d : d \in resolving)

SeqToSet(s) == {s[i] : i \in 1..Len(s)}

\* ssl.py:206  the value status has after acme.get_ssl() returned `result`
StatusAfterAcme(result) == TRUE

\* ssl.py:71-216  FastcpSsl.get_ssl(website) as a function of the state and of
\* what the environment does: which domains resolve, the step that fails,
\* the key a generator would produce, the lifetime of the issued certificate,
\* and whether a failed write leaves the file truncated.
GetSsl(w, resolving, fail, life) ==
    LET verified == VerifiedDomains(w, resolving)
        priv_key == ReadPrivKey(w)
        base == [NoAttempt EXCEPT !.w = w, !.resolving = resolving,
                    !.sslBefore = {d \in Domains : domSsl[d]},
                    !.keyBefore = privKey[w]]
        same == [key |-> privKey[w], cert |-> certChain[w], marked |-> {}]
        csr == generate_csr(verified, PkArg(priv_key))
        tried == [base EXCEPT !.csrTried = TRUE, !.generated = csr.generated]
        ordered == [tried EXCEPT !.order = csr.domains, !.placed = TRUE,
                        !.csrKey = csr.priv_key.v]
        newCert == ValidCert(now + life)
    IN  IF fail = "paths"
          THEN same @@ [a |-> [base EXCEPT !.raised = TRUE]]
        ELSE IF Len(verified) = 0
          THEN same @@ [a |-> base]
        ELSE IF fail = "acme_init"
          THEN same @@ [a |-> [base EXCEPT !.raised = TRUE]]
        ELSE IF csr.raises
          THEN same @@ [a |-> [tried EXCEPT !.raised = TRUE]]
        ELSE IF fail = "new_order"
          THEN same @@ [a |-> [tried EXCEPT !.raised = TRUE, !.csrKey = csr.priv_key.v]]
        ELSE IF fail = "write_token"
          THEN same @@ [a |-> [ordered EXCEPT !.raised = TRUE]]
        ELSE IF fail = "finalize"
          THEN same @@ [a |-> [ordered EXCEPT !.ret = StatusAfterAcme(FALSE)]]
        ELSE IF fail \in {"write_key", "write_key_trunc"}
          THEN [key |-> IF fail = "write_key_trunc" THEN EmptyStr ELSE privKey[w],
                cert |-> certChain[w], marked |-> {},
                a |-> [ordered EXCEPT !.finalized = TRUE, !.raised = TRUE]]
        ELSE IF fail \in {"write_cert", "write_cert_trunc"}
          THEN [key |-> csr.priv_key.v,
                cert |-> IF fail = "write_cert_trunc" THEN BadCert ELSE certChain[w],
                marked |-> {},
                a |-> [ordered EXCEPT !.finalized = TRUE, !.wroteKey = TRUE,
                                      !.raised = TRUE]]
        ELSE IF fail = "post_update"
          THEN [key |-> csr.priv_key.v, cert |-> newCert, marked |-> {},
                a |-> [ordered EXCEPT !.finalized = TRUE, !.wroteKey = TRUE,
                                      !.wroteCert = TRUE, !.raised = TRUE]]
        ELSE [key |-> csr.priv_key.v, cert |-> newCert,
              marked |-> SeqToSet(verified),
              a |-> [ordered EXCEPT !.finalized = TRUE, !.wroteKey = TRUE,
                                    !.wroteCert = TRUE,
                                    !.ret = StatusAfterAcme(TRUE)]]

\* models.py:193-195  Website.needs_ssl
needs_ssl(w) == \E d \in DomainsOf(w) : ~domSsl[d]

\* system.py:310-344  ssl_expiring: "yes", "no", or "raise" when the chain
\* file exists but x509.load_pem_x509_certificate cannot parse it
ssl_expiring(w) ==
    LET cert == certChain[w]
        delta == cert.notAfter - now
    IN  IF cert.st = NoFile THEN "no"
        ELSE IF cert.st = Corrupt THEN "raise"
        ELSE IF cert.notAfter <= now THEN "yes"
        ELSE IF delta \div TicksPerDay <= RenewDays THEN "yes"
        ELSE "no"

\* activate-ssl.py:20 / views.py:72  `website.needs_ssl() or ssl_expiring(website)`
RenewCondition(w) ==
    IF needs_ssl(w) THEN "yes" ELSE ssl_expiring(w)

LogOf(w, act) ==
    [w |-> w, act |-> act, needs |-> needs_ssl(w), certSt |-> certChain[w].st,
     left |-> certChain[w].notAfter - now]

ApplyGetSsl(w, r) ==
    /\ privKey' = [privKey EXCEPT ![w] = r.key]
    /\ certChain' = [certChain EXCEPT ![w] = r.cert]
    /\ domSsl' = [d \in Domains |-> domSsl[d] \/ d \in r.marked]
    /\ att' = r.a

(***************************************************************************)
(* Certificate lifecycle: actions                                          *)
(***************************************************************************)
\* ssl.py:22-47 and 71-216  fcp = FastcpSsl(); activated = fcp.get_ssl(website)
\* followed by the caller's `website.has_ssl = True` when activated
IssueIn(E, w) ==
    \E resolving \in Resolvings(E, w), fail \in E.fails, life \in E.lifetimes :
        LET r == GetSsl(w, resolving, fail, life)
        IN  /\ ApplyGetSsl(w, r)
            /\ hasSsl' = [hasSsl EXCEPT ![w] = hasSsl[w] \/ r.a.ret]

\* activate-ssl.py:11-18  the command starts, Website.objects.all() is taken
ScanStart ==
    /\ scanState # "running"
    /\ scanState' = "running"
    /\ scanPos' = 0
    /\ scanLog' = NoLog
    /\ UNCHANGED <<domSsl, hasSsl, privKey, certChain, now, att, notSsl>>

\* activate-ssl.py:19-38  one iteration of the loop over the websites
ScanStepIn(E) ==
    /\ scanState = "running"
    /\ scanPos < Len(WebsiteOrder)
    /\ UNCHANGED notSsl
    /\ LET w == WebsiteOrder[scanPos + 1]
           cond == RenewCondition(w)
           finish == /\ scanPos' = scanPos + 1
                     /\ scanState' = IF scanPos + 1 = Len(WebsiteOrder)
                                     THEN "done" ELSE "running"
       IN  \/ /\ cond = "raise"      \* the exception leaves the for loop
              /\ scanState' = "crashed"
              /\ scanLog' = LogOf(w, "raised")
              /\ UNCHANGED <<scanPos, domSsl, hasSsl, privKey, certChain, now, att>>
           \/ /\ cond = "no"
              /\ scanLog' = LogOf(w, "skipped")
              /\ finish
              /\ UNCHANGED <<domSsl, hasSsl, privKey, certChain, now, att>>
           \/ /\ cond = "yes"
              /\ scanLog' = LogOf(w, "attempted")
              /\ finish
              /\ UNCHANGED now
              /\ IssueIn(E, w)

\* views.py:58-89  RefreshSsl.post for an existing website
RefreshSslIn(E, w) ==
    /\ RenewCondition(w) = "yes"
    /\ IssueIn(E, w)
    /\ UNCHANGED <<now, scanState, scanPos, scanLog, notSsl>>

\* the clock advances
Tick ==
    /\ now < MaxNow
    /\ now' = now + 1
    /\ UNCHANGED <<domSsl, hasSsl, privKey, certChain, scanState, scanPos, scanLog, att,
                   notSsl>>

InitSsl ==
    /\ OthersIdle("ssl")
    /\ domSsl = [d \in Domains |-> FALSE]
    /\ hasSsl = [w \in Websites |-> FALSE]
    /\ privKey \in [Websites -> {NoFile, OldKey}]
    /\ certChain = [w \in Websites |-> NoCert]
    /\ now = 0
    /\ scanState = "idle"
    /\ scanPos = 0
    /\ scanLog = NoLog
    /\ att = NoAttempt

\* SpecSsl: issuance attempts under every failure, from both callers
RefreshSsl(w) == RefreshSslIn(IssueEnv, w)
ScanStep == ScanStepIn(IssueEnv)

NextSsl ==
    \/ \E w \in Websites : RefreshSsl(w)
    \/ ScanStart
    \/ ScanStep

SpecSsl == InitSsl /\ [][NextSsl]_vars

\* SpecScan: the periodic scan over time, with renewals
ScanRun == ScanStepIn(ScanEnv)

NextScan ==
    \/ ScanStart
    \/ ScanRun
    \/ Tick

SpecScan == InitSsl /\ [][NextScan]_vars

(***************************************************************************)
(* Domains of a website: DeleteDomainView                                  *)
(***************************************************************************)
\* the Domain rows the website may hold, and the requests served at a time
SiteDomains == {"e1", "e2", "e3"}
DelRequests == {"r1", "r2"}

NoDelete == [pc |-> "idle", dom_id |-> "", seen |-> 0]

\* views.py:95-112  delete(): the website is found and the number of its
\* domains is read; the request is answered 400 when that number is 1
DeleteDomainCheck(r) ==
    /\ delReq[r].pc = "idle"
    /\ \E dom_id \in SiteDomains :
          delReq' = [delReq EXCEPT ![r] =
                        [pc |-> IF Cardinality(domAttached) = 1 THEN "rejected" ELSE "passed",
                         dom_id |-> dom_id, seen |-> Cardinality(domAttached)]]
    /\ UNCHANGED <<domAttached, vhostRegens, notDom>>

\* views.py:114-122  delete(): the row is deleted and domains_updated is sent
DeleteDomainApply(r) ==
    /\ delReq[r].pc = "passed"
    /\ domAttached' = domAttached \ {delReq[r].dom_id}
    /\ vhostRegens' = vhostRegens + 1
    /\ delReq' = [delReq EXCEPT ![r].pc = "done"]
    /\ UNCHANGED notDom

InitDom ==
    /\ OthersIdle("dom")
    /\ domAttached \in (SUBSET SiteDomains) \ {{}}
    /\ delReq = [r \in DelRequests |-> NoDelete]
    /\ vhostRegens = 0

NextDom ==
    \E r \in DelRequests :
        \/ DeleteDomainCheck(r)
        \/ DeleteDomainApply(r)

SpecDom == InitDom /\ [][NextDom]_vars

(***************************************************************************)
(* Tenant provisioning: create_user signal and setup_user                  *)
(***************************************************************************)
UserNames == {"u1", "u2", "u3"}

\* a Python value for `password`: None, or a str of some length
PwNone == [t |-> "none", len |-> 0, random |-> FALSE]
PwStr(n) == [t |-> "str", len |-> n, random |-> FALSE]

\* the passwords a request carries: none, the empty string, eight characters
SuppliedPasswords == {PwNone, PwStr(0), PwStr(8)}

RandLen == 20          \* system.py:210  rand_passwd(20)

\* system.py:153-159  rand_passwd(length): `length` letters and digits
rand_passwd(length) == [t |-> "str", len |-> length, random |-> TRUE]

\* signals.py:70  kwargs.get("password") or ""
OrEmpty(password) ==
    IF password.t = "none" \/ password.len = 0 THEN PwStr(0) ELSE password

\* system.py:209-210  setup_user: the password the account is created with
SetupPassword(password) ==
    IF password.t = "none" THEN rand_passwd(RandLen) ELSE password

NoAccount == [via |-> "none", supplied |-> PwNone, password |-> PwNone]

\* users/serializers.py:32-37 and signals.py:64-70  a user is created through
\* the API: the create_user signal provisions a tenant, not a superuser
CreateUser(u) ==
    /\ osAccounts[u].via = "none"
    /\ \E supplied \in SuppliedPasswords, is_superuser \in BOOLEAN :
          osAccounts' = [osAccounts EXCEPT ![u] =
              IF is_superuser
                THEN [via |-> "superuser", supplied |-> supplied, password |-> PwNone]
                ELSE [via |-> "signal", supplied |-> supplied,
                      password |-> SetupPassword(OrEmpty(supplied))]]
    /\ UNCHANGED notUser

\* system.py:197-250  setup_user(user, password) called directly
SetupUser(u) ==
    /\ osAccounts[u].via = "none"
    /\ \E supplied \in SuppliedPasswords :
          osAccounts' = [osAccounts EXCEPT ![u] =
              [via |-> "setup_user", supplied |-> supplied,
               password |-> SetupPassword(supplied)]]
    /\ UNCHANGED notUser

InitUser ==
    /\ OthersIdle("user")
    /\ osAccounts = [u \in UserNames |-> NoAccount]

NextUser ==
    \E u \in UserNames :
        \/ CreateUser(u)
        \/ SetupUser(u)

SpecUser == InitUser /\ [][NextUser]_vars

(***************************************************************************)
(* Outbound network calls and the FASTCP_DISABLE_NETWORK toggle            *)
(***************************************************************************)
ToggleValues == {"unset", "0", "1"}

\* what the remote side does when a request is issued
Replies == {"200", "500", "exc"}

\* http.py:6-23  open_url: raises before requests.get when the toggle is "1"
open_url(toggle, reply) ==
    IF toggle = "1"
      THEN [issued |-> FALSE, out |-> "RuntimeError"]
      ELSE [issued |-> TRUE, out |-> reply]

\* ssl.py:49-69  is_resolving: every exception of open_url is swallowed
is_resolving(toggle, reply) ==
    LET r == open_url(toggle, reply)
    IN  [issued |-> r.issued, out |-> IF r.out = "200" THEN "True" ELSE "False"]

\* file_upload.py:44-71  remote_upload: requests.get is called directly
remote_upload(toggle, reply, allowed) ==
    IF ~allowed THEN [issued |-> FALSE, out |-> "False"]
    ELSE [issued |-> TRUE, out |-> IF reply = "200" THEN "True" ELSE "False"]

\* fcp_acme.py:62-64  FastcpAcme.__init__: ClientNetwork.get(dir_url)
acme_directory(toggle, reply) ==
    [issued |-> TRUE, out |-> IF reply = "200" THEN "client" ELSE "exception"]

\* the outcomes that tell the caller the call did not succeed
FailedOutcomes == {"RuntimeError", "False", "exception", "exc", "500"}

NetCall(op, r) == [op |-> op, toggle |-> netToggle, issued |-> r.issued, out |-> r.out]

CallOpenUrl ==
    /\ Len(netLog) < MaxCalls
    /\ \E reply \in Replies : netLog' = Append(netLog, NetCall("open_url", open_url(netToggle, reply)))
    /\ UNCHANGED <<netToggle, notNet>>

CallIsResolving ==
    /\ Len(netLog) < MaxCalls
    /\ \E reply \in Replies :
          netLog' = Append(netLog, NetCall("is_resolving", is_resolving(netToggle, reply)))
    /\ UNCHANGED <<netToggle, notNet>>

CallRemoteUpload ==
    /\ Len(netLog) < MaxCalls
    /\ \E reply \in Replies, allowed \in BOOLEAN :
          netLog' = Append(netLog,
                           NetCall("remote_upload", remote_upload(netToggle, reply, allowed)))
    /\ UNCHANGED <<netToggle, notNet>>

CallAcme ==
    /\ Len(netLog) < MaxCalls
    /\ \E reply \in Replies :
          netLog' = Append(netLog, NetCall("acme", acme_directory(netToggle, reply)))
    /\ UNCHANGED <<netToggle, notNet>>

\* the operator sets or clears the variable
SetToggle ==
    /\ \E v \in ToggleValues \ {netToggle} : netToggle' = v
    /\ UNCHANGED <<netLog, notNet>>

InitNet ==
    /\ OthersIdle("net")
    /\ netToggle \in ToggleValues
    /\ netLog = <<>>

NextNet ==
    \/ CallOpenUrl
    \/ CallIsResolving
    \/ CallRemoteUpload
    \/ CallAcme
    \/ SetToggle

SpecNet == InitNet /\ [][NextNet]_vars

(***************************************************************************)
(* Process identity: set_uid and the file-manager operations that use it   *)
(***************************************************************************)
RootCreds == [uid |-> 0, gid |-> 0]
TenantUid == 1001

Done(c) == [c |-> c, raised |-> FALSE]
Raised(c) == [c |-> c, raised |-> TRUE]

\* os.setuid: a privileged process sets all its user ids; any other process
\* may only name the id it has
setuid(c, uid) ==
    IF c.uid = 0 THEN Done([c EXCEPT !.uid = uid])
    ELSE IF uid = c.uid THEN Done(c) ELSE Raised(c)

\* os.setgid: the same rule, privilege being decided by the user id
setgid(c, gid) ==
    IF c.uid = 0 THEN Done([c EXCEPT !.gid = gid])
    ELSE IF gid = c.gid THEN Done(c) ELSE Raised(c)

\* system.py:17-27  set_uid(uid): os.setuid(uid) then os.setgid(uid)
set_uid(c, uid) ==
    LET a == setuid(c, uid) IN IF a.raised THEN a ELSE setgid(a.c, uid)

\* `if uid: set_uid(uid)`
Become(c, uid) == IF uid # 0 THEN set_uid(c, uid) ELSE Done(c)

\* what the body of an operation meets: its precondition is false, it
\* succeeds, it raises UnicodeDecodeError, it raises another exception
BodyEvents == {"skip", "ok", "unicode", "error"}

Exit(c, how) == [c |-> c, exit |-> how]

\* read_file.py:30-55  the switch and the restore are outside the try; the
\* try catches UnicodeDecodeError only
read_file(c, uid, ev) ==
    LET b == Become(c, uid)
        r == set_uid(b.c, 0)
    IN  IF b.raised THEN Exit(b.c, "raise")
        ELSE IF ev = "error" THEN Exit(b.c, "raise")
        ELSE IF r.raised THEN Exit(r.c, "raise")
        ELSE Exit(r.c, "return")

\* update_file.py:26-47  everything is inside try/except UnicodeDecodeError
update_file(c, uid, ev) ==
    LET b == Become(c, uid)
        r == set_uid(b.c, 0)
    IN  IF ev = "skip" THEN Exit(c, "return")
        ELSE IF b.raised THEN Exit(b.c, "raise")
        ELSE IF ev = "unicode" THEN Exit(b.c, "return")
        ELSE IF ev = "error" THEN Exit(b.c, "raise")
        ELSE IF r.raised THEN Exit(r.c, "raise")
        ELSE Exit(r.c, "return")

\* rename_item.py:26-55  the switch is outside the try; the try has a bare
\* except and the restore is repeated after it
rename_item(c, uid, ev) ==
    LET b == Become(c, uid)
        r == set_uid(b.c, 0)
    IN  IF b.raised THEN Exit(b.c, "raise")
        ELSE IF r.raised THEN Exit(r.c, "raise")
        ELSE Exit(r.c, "return")

\* move_items.py:27-58  move_data: each path has its own bare except
move_data(c, uid, ev) ==
    LET b == Become(c, uid)
        r == set_uid(b.c, 0)
    IN  IF b.raised THEN Exit(b.c, "raise")
        ELSE IF r.raised THEN Exit(r.c, "raise")
        ELSE Exit(r.c, "return")

\* update_permissions.py:26-46, generate_archive.py:28-52 and
\* extract_archive.py:26-49  the switch, the body and the restore are inside
\* one try/except Exception
InsideTry(c, uid, ev) ==
    LET b == Become(c, uid)
        r == set_uid(b.c, 0)
    IN  IF ev = "skip" THEN Exit(c, "return")
        ELSE IF b.raised THEN Exit(b.c, "return")
        ELSE IF ev \in {"unicode", "error"} THEN Exit(b.c, "return")
        ELSE Exit(r.c, "return")

update_permissions(c, uid, ev) == InsideTry(c, uid, ev)
generate_archive(c, uid, ev) == InsideTry(c, uid, ev)
extract_archive(c, uid, ev) == InsideTry(c, uid, ev)

UidOps == {"read_file", "update_file", "rename_item", "move_data",
           "update_permissions", "generate_archive", "extract_archive"}

RunOp(op, c, uid, ev) ==
    CASE op = "read_file" -> read_file(c, uid, ev)
      [] op = "update_file" -> update_file(c, uid, ev)
      [] op = "rename_item" -> rename_item(c, uid, ev)
      [] op = "move_data" -> move_data(c, uid, ev)
      [] op = "update_permissions" -> update_permissions(c, uid, ev)
      [] op = "generate_archive" -> generate_archive(c, uid, ev)
      [] op = "extract_archive" -> extract_archive(c, uid, ev)

\* set_uid(uid) was called with a uid: the operation switched identity
Switches(op, uid, ev) ==
    /\ uid # 0
    /\ ev = "skip" => op \in {"read_file", "rename_item", "move_data"}

\* one file-manager request is served; uid is what get_uid_by_path returns
\* for the path (0 standing for None as well)
ServeOp ==
    /\ Len(uidLog) < MaxOps
    /\ \E op \in UidOps, uid \in {0, TenantUid}, ev \in BodyEvents :
          LET r == RunOp(op, procCreds, uid, ev)
          IN  /\ procCreds' = r.c
              /\ uidLog' = Append(uidLog, [op |-> op, uid |-> uid, ev |-> ev,
                                           before |-> procCreds,
                                           switched |-> Switches(op, uid, ev),
                                           exit |-> r.exit, after |-> r.c])
    /\ UNCHANGED notUid

InitUid ==
    /\ OthersIdle("uid")
    /\ procCreds = RootCreds
    /\ uidLog = <<>>

NextUid == ServeOp

SpecUid == InitUid /\ [][NextUid]_vars

(***************************************************************************)
(* Website teardown: delete_website                                        *)
(***************************************************************************)
\* the website directory tree, the pool file, the vhost directories and
\* files of both servers, the certificate directory
Artifacts == {"base", "fpm", "nginx_d", "nginx_conf", "apache_d", "apache_conf", "ssl"}

TdState(have, steps, raised) == [have |-> have, steps |-> steps, raised |-> raised]

\* filesystem.py:405-412  delete_website_dirs: rmtree inside try/except
delete_website_dirs(have, fails) ==
    IF "base" \in have /\ "base" \notin fails THEN have \ {"base"} ELSE have

\* filesystem.py:453-473  delete_fpm_conf
delete_fpm_conf(have, fails) ==
    IF "fpm" \in have /\ "fpm" \notin fails THEN have \ {"fpm"} ELSE have

\* filesystem.py:183-206 and 208-230  delete_apache_vhost / delete_nginx_vhost:
\* rmtree of the '.d' directory comes first inside the try, the vhost file is
\* removed after it
delete_vhost(have, fails, dir, conf) ==
    IF dir \notin have \/ dir \in fails THEN have
    ELSE IF conf \in have /\ conf \notin fails THEN have \ {dir, conf}
    ELSE have \ {dir}

\* filesystem.py:233-243  delete_ssl_certs: no try
delete_ssl_certs(have, fails) ==
    IF "ssl" \notin have THEN [have |-> have, raised |-> FALSE]
    ELSE IF "ssl" \in fails THEN [have |-> have, raised |-> TRUE]
    ELSE [have |-> have \ {"ssl"}, raised |-> FALSE]

\* system.py:87-107  delete_website: the five steps in order
delete_website(have, fails) ==
    LET h1 == delete_website_dirs(have, fails)
        h2 == delete_fpm_conf(h1, fails)
        h3 == delete_vhost(h2, fails, "nginx_d", "nginx_conf")
        h4 == delete_vhost(h3, fails, "apache_d", "apache_conf")
        r5 == delete_ssl_certs(h4, fails)
    IN  TdState(r5.have, 5, r5.raised)

NoTeardown == [ran |-> FALSE, before |-> {}, fails |-> {}, after |-> {},
               steps |-> 0, raised |-> FALSE]

\* signals.py:58-61  the Website row is about to be deleted; `fails` are the
\* artifacts whose removal the operating system refuses
RunDeleteWebsite ==
    /\ ~tdLast.ran
    /\ \E fails \in {{}} \cup {{a} : a \in Artifacts} :
          LET r == delete_website(artifacts, fails)
          IN  /\ artifacts' = r.have
              /\ tdLast' = [ran |-> TRUE, before |-> artifacts, fails |-> fails,
                            after |-> r.have, steps |-> r.steps, raised |-> r.raised]
    /\ UNCHANGED notTd

InitTeardown ==
    /\ OthersIdle("td")
    /\ artifacts \in SUBSET Artifacts
    /\ tdLast = NoTeardown

NextTeardown == RunDeleteWebsite

SpecTeardown == InitTeardown /\ [][NextTeardown]_vars

(***************************************************************************)
(* Engine statements: FastcpSqlService.setup_db                            *)
(***************************************************************************)
\* mysql.py:56-66  the statements of setup_db, in the order of the code
SetupStatements == <<"create_user_localhost", "create_user_any", "create_database",
                     "grant_localhost", "grant_any", "flush_privileges">>

SqlDatabases == {"n1", "n2", "n3"}

\* mysql.py:16-39  _execute_sql: True when the statement runs, the exception
\* of the cursor is raised again otherwise
execute_sql(succeeds) == IF succeeds THEN "True" ELSE "raise"

\* mysql.py:42-68  setup_db: statement i is run when the ones before it
\* returned; failAt is the statement the engine refuses, 0 for none
RECURSIVE RunStatements(_, _, _)
RunStatements(i, failAt, ran) ==
    IF i > Len(SetupStatements)
      THEN [ran |-> ran, effects |-> ran, result |-> "True"]
    ELSE IF execute_sql(i # failAt) = "raise"
      THEN [ran |-> Append(ran, SetupStatements[i]), effects |-> ran, result |-> "raise"]
    ELSE RunStatements(i + 1, failAt, Append(ran, SetupStatements[i]))

setup_db(failAt) == RunStatements(1, failAt, <<>>)

NoSetup == [called |-> FALSE, failAt |-> 0, ran |-> <<>>, result |-> "none"]

\* system.py:253-270  create_database(database, password)
CreateEngineDatabase(n) ==
    /\ ~sqlLog[n].called
    /\ \E failAt \in 0..Len(SetupStatements) :
          LET r == setup_db(failAt)
          IN  /\ sqlEngine' = sqlEngine \cup {<<n, r.effects[k]>> : k \in 1..Len(r.effects)}
              /\ sqlLog' = [sqlLog EXCEPT ![n] = [called |-> TRUE, failAt |-> failAt,
                                                  ran |-> r.ran, result |-> r.result]]
    /\ UNCHANGED notSql

InitSetupDb ==
    /\ OthersIdle("sql")
    /\ sqlEngine = {}
    /\ sqlLog = [n \in SqlDatabases |-> NoSetup]

NextSetupDb == \E n \in SqlDatabases : CreateEngineDatabase(n)

SpecSetupDb == InitSetupDb /\ [][NextSetupDb]_vars

(***************************************************************************)
(* Service signals: restart_services_handler, reload_services_handler      *)
(***************************************************************************)
\* the names between the commas of the services argument; "" is an empty
\* name and " " a name of blanks
ServiceNames == {"nginx", "apache2", "", " "}

\* signals.py:80, 93  service.strip()
StripName(name) == IF name = " " THEN "" ELSE name

\* what the child process of one command does
CmdOutcomes == {"exit0", "nonzero", "timeout", "spawn_error"}

\* system.py:30-50  run_cmd: only CalledProcessError is caught; the timeout
\* of check_call (TimeoutExpired) and a failure to spawn (OSError) are not
run_cmd(outcome) ==
    CASE outcome = "exit0"   -> "True"
      [] outcome = "nonzero" -> "False"
      [] OTHER               -> "raise"

\* signals.py:76-83, 89-96  the loop over the names
RECURSIVE ServiceLoop(_, _, _, _)
ServiceLoop(services, outcomes, i, issued) ==
    IF i > Len(services) THEN [issued |-> issued, raised |-> FALSE]
    ELSE IF StripName(services[i]) = "" THEN ServiceLoop(services, outcomes, i + 1, issued)
    ELSE IF run_cmd(outcomes[i]) = "raise"
      THEN [issued |-> Append(issued, StripName(services[i])), raised |-> TRUE]
    ELSE ServiceLoop(services, outcomes, i + 1, Append(issued, StripName(services[i])))

ServiceLists == UNION {[1..n -> ServiceNames] : n \in 1..MaxServices}

HandleServices(topic) ==
    \E services \in ServiceLists :
      \E outcomes \in [1..Len(services) -> CmdOutcomes] :
        LET r == ServiceLoop(services, outcomes, 1, <<>>)
        IN  /\ svcLast' = [topic |-> topic, services |-> services, outcomes |-> outcomes,
                           issued |-> r.issued, raised |-> r.raised]
            /\ UNCHANGED notSvc

\* signals.py:76-86
restart_services_handler == HandleServices("restart")

\* signals.py:89-99
reload_services_handler == HandleServices("reload")

InitSvc ==
    /\ OthersIdle("svc")
    /\ svcLast = [topic |-> "none", services |-> <<>>, issued |-> <<>>, raised |-> FALSE]

NextSvc ==
    \/ restart_services_handler
    \/ reload_services_handler

SpecSvc == InitSvc /\ [][NextSvc]_vars

(***************************************************************************)
(* ACME account artifacts: FastcpSsl.__init__, get_ssl, FastcpAcme.__init__*)
(***************************************************************************)
\* a file content, a key or a registration is the number of the call that
\* made it; 0 is an absent file, None or the empty string
NoArtifacts == [key |-> 0, regr |-> 0]

NoCall == [built |-> FALSE, generated |-> FALSE, registered |-> FALSE]

\* the two places that call FastcpSsl().get_ssl: activate-ssl.py:22-23 and
\* views.py:73-74; they run in different processes
SslCallers == {"scan", "endpoint"}

\* fcp_acme.py:42-70  FastcpAcme.__init__(acc_key, regr): the key is generated
\* when none is given, the account registered when none is given
FastcpAcmeInit(acc_key, regr, call) ==
    [key  |-> IF acc_key = 0 THEN call ELSE acc_key,
     regr |-> IF regr = 0 THEN call ELSE regr]

\* ssl.py:35-47  FastcpSsl(): both files are read when they exist
ConstructSsl(p) ==
    /\ acctPc[p] = "idle"
    /\ acctCalls < MaxIssuances
    /\ acctCalls' = acctCalls + 1
    /\ acctSelf' = [acctSelf EXCEPT ![p] = acctFiles]
    /\ acctClient' = [acctClient EXCEPT ![p] = NoArtifacts]
    /\ acctLast' = [acctLast EXCEPT ![p] = NoCall]
    /\ acctPc' = [acctPc EXCEPT ![p] = "constructed"]
    /\ UNCHANGED <<acctFiles>>
    /\ UNCHANGED notAcct

\* ssl.py:89-116  get_ssl up to the client: no client without a resolving
\* domain; the directory request or the registration may raise
BuildClient(p) ==
    /\ acctPc[p] = "constructed"
    /\ \E verified \in BOOLEAN, reachable \in BOOLEAN :
          IF verified /\ reachable
            THEN /\ acctClient' = [acctClient EXCEPT ![p] =
                                      FastcpAcmeInit(acctSelf[p].key, acctSelf[p].regr, acctCalls)]
                 /\ acctLast' = [acctLast EXCEPT ![p] =
                                    [built |-> TRUE, onDisk |-> acctFiles,
                                     generated |-> acctSelf[p].key = 0,
                                     registered |-> acctSelf[p].regr = 0]]
                 /\ acctPc' = [acctPc EXCEPT ![p] = "client"]
            ELSE /\ acctPc' = [acctPc EXCEPT ![p] = "idle"]
                 /\ UNCHANGED <<acctClient, acctLast>>
    /\ UNCHANGED <<acctFiles, acctSelf, acctCalls>>
    /\ UNCHANGED notAcct

\* ssl.py:118-125  the account key is written when none was loaded; an error
\* of open or write leaves get_ssl through its except clause
SaveAccountKey(p) ==
    /\ acctPc[p] = "client"
    /\ IF acctSelf[p].key # 0
         THEN /\ acctPc' = [acctPc EXCEPT ![p] = "key_saved"]
              /\ UNCHANGED acctFiles
         ELSE \E written \in BOOLEAN :
                IF written
                  THEN /\ acctFiles' = [acctFiles EXCEPT !.key = acctClient[p].key]
                       /\ acctPc' = [acctPc EXCEPT ![p] = "key_saved"]
                  ELSE /\ acctPc' = [acctPc EXCEPT ![p] = "idle"]
                       /\ UNCHANGED acctFiles
    /\ UNCHANGED <<acctSelf, acctClient, acctCalls, acctLast>>
    /\ UNCHANGED notAcct

\* ssl.py:127-135  the account resource is written when none was loaded; the
\* rest of get_ssl does not touch the account files
SaveAccountResource(p) ==
    /\ acctPc[p] = "key_saved"
    /\ IF acctSelf[p].regr # 0
         THEN UNCHANGED acctFiles
         ELSE \E written \in BOOLEAN :
                IF written
                  THEN acctFiles' = [acctFiles EXCEPT !.regr = acctClient[p].regr]
                  ELSE UNCHANGED acctFiles
    /\ acctPc' = [acctPc EXCEPT ![p] = "idle"]
    /\ UNCHANGED <<acctSelf, acctClient, acctCalls, acctLast>>
    /\ UNCHANGED notAcct

InitAcct ==
    /\ OthersIdle("acct")
    /\ acctFiles = NoArtifacts
    /\ acctPc = [p \in SslCallers |-> "idle"]
    /\ acctSelf = [p \in SslCallers |-> NoArtifacts]
    /\ acctClient = [p \in SslCallers |-> NoArtifacts]
    /\ acctCalls = 0
    /\ acctLast = [p \in SslCallers |-> NoCall]

NextAcct ==
    \E p \in SslCallers :
        \/ ConstructSsl(p)
        \/ BuildClient(p)
        \/ SaveAccountKey(p)
        \/ SaveAccountResource(p)

SpecAcct == InitAcct /\ [][NextAcct]_vars

(***************************************************************************)
(* Challenge token files: FastcpSsl.get_ssl, FastcpAcme.get_ssl            *)
(***************************************************************************)
\* what open(token_path, 'wb') and f.write do for one token
WriteOutcomes == {"written", "open_failed", "write_failed"}

\* ssl.py:161-173  one round of the writing loop with the path appended only
\* after the write
WriteToken_AppendAfter(paths, disk, t, outcome) ==
    [paths  |-> IF outcome = "written" THEN Append(paths, t) ELSE paths,
     disk   |-> IF outcome = "open_failed" THEN disk ELSE disk \cup {t},
     raised |-> outcome # "written"]

\* ssl.py:161-173  one round of the writing loop: the path is appended to
\* token_paths, then the file is opened (created) and written
WriteToken(paths, disk, t, outcome) ==
    [paths  |-> Append(paths, t),
     disk   |-> IF outcome = "open_failed" THEN disk ELSE disk \cup {t},
     raised |-> outcome # "written"]

\* ssl.py:209-214  the finally block: every path of token_paths that exists
\* is removed
RemoveTokens(paths, disk) == disk \ {paths[i] : i \in 1..Len(paths)}

\* ssl.py:87-160  get_ssl up to the order: request_ssl returns the
\* challenges of the verified domains, or an earlier step raises
StartIssuance ==
    /\ tokPc \in {"idle", "returned"}
    /\ tokAttempt < MaxAttempts
    /\ tokAttempt' = tokAttempt + 1
    /\ tokPaths' = <<>>
    /\ tokAnswered' = 0
    /\ \E n \in 0..MaxTokens :
          /\ tokN' = n
          /\ tokNext' = 1
          /\ tokPc' = IF n = 0 THEN "finally" ELSE "writing"
    /\ UNCHANGED tokDisk
    /\ UNCHANGED notTok

\* ssl.py:161-173
WriteTokenStep ==
    /\ tokPc = "writing"
    /\ \E outcome \in WriteOutcomes :
          LET r == WriteToken(tokPaths, tokDisk, <<tokAttempt, tokNext>>, outcome)
          IN  /\ tokPaths' = r.paths
              /\ tokDisk' = r.disk
              /\ tokPc' = IF r.raised THEN "finally"
                          ELSE IF tokNext = tokN THEN "answering" ELSE "writing"
              /\ tokNext' = IF r.raised THEN tokNext ELSE tokNext + 1
    /\ UNCHANGED <<tokN, tokAnswered, tokAttempt>>
    /\ UNCHANGED notTok

\* ssl.py:176, fcp_acme.py:203-205  acme.get_ssl answers the challenges one
\* by one; an error makes it return False
AnswerChallenge ==
    /\ tokPc = "answering"
    /\ \E accepted \in BOOLEAN :
          /\ tokAnswered' = tokAnswered + 1
          /\ tokPc' = IF ~accepted THEN "finally"
                      ELSE IF tokAnswered + 1 = tokN THEN "installing" ELSE "answering"
    /\ UNCHANGED <<tokDisk, tokPaths, tokN, tokNext, tokAttempt>>
    /\ UNCHANGED notTok

\* fcp_acme.py:206-212, ssl.py:178-208  the order is finalized or fails, the
\* certificate files are written, nginx restarted; any of them may raise
InstallCertificate ==
    /\ tokPc = "installing"
    /\ tokPc' = "finally"
    /\ UNCHANGED <<tokDisk, tokPaths, tokN, tokNext, tokAnswered, tokAttempt>>
    /\ UNCHANGED notTok

\* ssl.py:209-216
FinallyRemove ==
    /\ tokPc = "finally"
    /\ tokDisk' = RemoveTokens(tokPaths, tokDisk)
    /\ tokPc' = "returned"
    /\ UNCHANGED <<tokPaths, tokN, tokNext, tokAnswered, tokAttempt>>
    /\ UNCHANGED notTok

InitTok ==
    /\ OthersIdle("tok")
    /\ tokDisk = {}
    /\ tokPaths = <<>>
    /\ tokPc = "idle"
    /\ tokN = 0
    /\ tokNext = 0
    /\ tokAnswered = 0
    /\ tokAttempt = 0

NextTok ==
    \/ StartIssuance
    \/ WriteTokenStep
    \/ AnswerChallenge
    \/ InstallCertificate
    \/ FinallyRemove

SpecTok == InitTok /\ [][NextTok]_vars

(***************************************************************************)
(* Vhost regeneration after an issuance: activate-ssl, RefreshSsl.post     *)
(***************************************************************************)
\* filesystem.py:319-325  create_nginx_vhost: the template of the vhost file
nginx_template(has_ssl, files) ==
    IF has_ssl /\ files.cert /\ files.key THEN "https" ELSE "http"

\* ssl.py:87-216  what one get_ssl call leaves: the certificate files and the
\* returned status; status is True once the try block is run through, with
\* or without a certificate (ssl.py:176-206)
GetSslEnds == {"issued", "acme_failed", "cert_write_raised", "raised"}

FilesAfter(files, end) ==
    CASE end = "issued"            -> [cert |-> TRUE, key |-> TRUE]
      [] end = "cert_write_raised" -> [cert |-> files.cert, key |-> TRUE]
      [] OTHER                     -> files

StatusAfter(end) == end \in {"issued", "acme_failed"}

VhRecord(entry, w, end, hasAtSignal, files, signalled) ==
    [entry |-> entry, w |-> w, end |-> end, activated |-> StatusAfter(end),
     signalled |-> signalled, hasAtSignal |-> hasAtSignal, filesAtSignal |-> files]

\* activate-ssl.py:20-30  has_ssl is saved, then domains_updated is sent
ScanActivate(w) ==
    \E end \in GetSslEnds :
        LET files == FilesAfter(vhFiles[w], end)
        IN  /\ vhFiles' = [vhFiles EXCEPT ![w] = files]
            /\ IF StatusAfter(end)
                 THEN /\ vhHasSsl' = [vhHasSsl EXCEPT ![w] = TRUE]
                      /\ vhTemplate' = [vhTemplate EXCEPT ![w] = nginx_template(TRUE, files)]
                      /\ vhLast' = VhRecord("scan", w, end, TRUE, files, TRUE)
                 ELSE /\ UNCHANGED <<vhHasSsl, vhTemplate>>
                      /\ vhLast' = VhRecord("scan", w, end, vhHasSsl[w], files, FALSE)
            /\ UNCHANGED notVh

\* views.py:72-85  RefreshSsl.post: domains_updated is sent, then has_ssl is
\* set and saved
RefreshPost(w) ==
    \E end \in GetSslEnds :
        LET files == FilesAfter(vhFiles[w], end)
        IN  /\ vhFiles' = [vhFiles EXCEPT ![w] = files]
            /\ IF StatusAfter(end)
                 THEN /\ vhTemplate' = [vhTemplate EXCEPT ![w] =
                                           nginx_template(vhHasSsl[w], files)]
                      /\ vhHasSsl' = [vhHasSsl EXCEPT ![w] = TRUE]
                      /\ vhLast' = VhRecord("endpoint", w, end, vhHasSsl[w], files, TRUE)
                 ELSE /\ UNCHANGED <<vhHasSsl, vhTemplate>>
                      /\ vhLast' = VhRecord("endpoint", w, end, vhHasSsl[w], files, FALSE)
            /\ UNCHANGED notVh

\* models.py:146  has_ssl defaults to False; system.py setup_website writes
\* the first vhost of a website before any certificate exists
InitVhost ==
    /\ OthersIdle("vh")
    /\ vhHasSsl = [w \in Websites |-> FALSE]
    /\ vhFiles = [w \in Websites |-> [cert |-> FALSE, key |-> FALSE]]
    /\ vhTemplate = [w \in Websites |-> "http"]
    /\ vhLast = [entry |-> "none"]

NextVhost ==
    \E w \in Websites :
        \/ ScanActivate(w)
        \/ RefreshPost(w)

SpecVhost == InitVhost /\ [][NextVhost]_vars

(***************************************************************************)
(* Listing: FileListSerializer.validate_path                               *)
(***************************************************************************)
\* urllib.parse.quote on one atom: '/' is in the default safe set, letters
\* and '.' are unreserved, every other character becomes %XX; the '%' of a
\* name that holds the text of an escape becomes %25
Quo(a) ==
    CASE a = " " -> "%20"
      [] a = "+" -> "%2B"
      [] a = "%20" -> "%2520"
      [] a = "%2B" -> "%252B"
      [] a = "%2520" -> "%252520"
      [] a = "%252B" -> "%25252B"
      [] OTHER -> a

\* urllib.parse.quote(value)
quote(value) == [i \in 1..Len(value) |-> Quo(value[i])]

RECURSIVE QuoteTimes(_, _)
QuoteTimes(value, k) == IF k = 0 THEN value ELSE QuoteTimes(quote(value), k - 1)

\* serializers.py:128-141  FileListSerializer.validate_path(value) on a file
\* system with the directories dirs and the regular files files
list_validate_path(value, dirs, files) ==
    LET r == validate_path(value)
    IN  IF ~r.ok \/ r.value = <<>> THEN r
        ELSE IF r.value \notin dirs \cup files THEN Rejected
        ELSE IF r.value \notin dirs THEN Rejected
        ELSE r

\* names of entries of FILE_MANAGER_ROOT: plain, with a blank, with a plus
\* sign, and one whose name is the text of an escape
ListNames == {<<"a">>, <<"a", " ", "b">>, <<"a", "+", "b">>, <<"a", "%20", "b">>}
ListPaths == {pathjoin(FILE_MANAGER_ROOT, n) : n \in ListNames}

\* list_files view: the serializer validates the `path` of the request; p is
\* the path the client means and k the number of times it was quoted
ValidateListPath ==
    \E q \in ListPaths, k \in 0..MaxQuotes :
        /\ lsLast' = [called |-> TRUE, p |-> q, k |-> k,
                      res |-> list_validate_path(QuoteTimes(q, k), lsDirs, lsFiles)]
        /\ UNCHANGED <<lsDirs, lsFiles>>
        /\ UNCHANGED notLs

InitList ==
    /\ OthersIdle("ls")
    /\ \E kind \in [ListPaths -> {"dir", "file", "none"}] :
          /\ lsDirs = {FILE_MANAGER_ROOT} \cup {q \in ListPaths : kind[q] = "dir"}
          /\ lsFiles = {q \in ListPaths : kind[q] = "file"}
    /\ lsLast = [called |-> FALSE]

NextList == ValidateListPath

SpecList == InitList /\ [][NextList]_vars

(***************************************************************************)
(* File manager: the operations and their gate                             *)
(***************************************************************************)
\* usernames of the User rows
Usernames == {Alice.username, Bob.username, Abby.username, Admin.username}

\* base_service.py:16-31  get_owner_by_path: path.split('/')[3] is looked up
\* among the users; <<>> stands for None
get_owner_by_path(path) ==
    LET comps == split(path)
    IN  IF Len(comps) >= 4 /\ comps[4] \in Usernames THEN comps[4] ELSE <<>>

\* base_service.py:33-46  is_owner(path, user)
is_owner(path, user) ==
    LET owner == get_owner_by_path(path)
    IN  owner # <<>> /\ (user.username = owner \/ user.is_superuser)

\* base_service.py:48-64  is_allowed(path, user)
is_allowed(path, user) ==
    IF is_owner(path, user) THEN Len(split(path)) >= 6 ELSE FALSE

\* os.path.basename
basename(path) == LET comps == split(path) IN comps[Len(comps)]

\* what an operation hands back: its return value, or the exception that
\* left it, and the file system after it
MutResult(ok, raised, dirs, files) ==
    [ok |-> ok, raised |-> raised, dirs |-> dirs, files |-> files]

\* os.rename(old, new) of a file or of a directory with its subtree
Rebase(q, from, to) == to \o SubSeq(q, Len(from) + 1, Len(q))
OsRename(old, new, dirs, files) ==
    [dirs  |-> {IF Below(d, old) THEN Rebase(d, old, new) ELSE d : d \in dirs},
     files |-> {IF Below(f, old) THEN Rebase(f, old, new) ELSE f : f \in files}]

\* rename_item.py:26-55  RenameItemService.rename_item; `path` is the value
\* the serializer returned, <<>> when the field is absent
rename_item_at(user, path, old_name, new_name, dirs, files) ==
    LET BASE_PATH == get_user_path(user)
        root_path == IF path = <<>> \/ ~startswith(path, BASE_PATH) THEN BASE_PATH ELSE path
        old_path == pathjoin(root_path, old_name)
        new_path == pathjoin(root_path, new_name)
        ro == OsResolve(old_path, dirs)
        rn == OsResolve(new_path, dirs)
    IN  IF exists(old_path, dirs, files) /\ ~exists(new_path, dirs, files) /\ rn.ok
          THEN LET fs == OsRename(ro.p, rn.p, dirs, files)
               IN  MutResult(TRUE, FALSE, fs.dirs, fs.files)
          ELSE MutResult(FALSE, FALSE, dirs, files)

\* move_items.py:17-58  MoveDataService.move_data with one regular file in
\* `paths`: shutil.move refuses an existing target, shutil.copy2 replaces it
move_data_to(user, path, p, action, dirs, files) ==
    LET BASE_PATH == get_user_path(user)
        dest_root == IF path = <<>> \/ ~startswith(path, BASE_PATH) THEN BASE_PATH ELSE path
        rs == OsResolve(p, dirs)
        target == pathjoin(dest_root, basename(p))
        rt == OsResolve(target, dirs)
    IN  IF ~isfile(p, dirs, files) \/ ~isdir(dest_root, dirs) \/ ~rt.ok
          THEN MutResult(FALSE, FALSE, dirs, files)
        ELSE IF action = "move"
          THEN IF exists(target, dirs, files)
                 THEN MutResult(FALSE, FALSE, dirs, files)
                 ELSE MutResult(TRUE, FALSE, dirs, (files \ {rs.p}) \cup {rt.p})
        ELSE IF rt.p \in dirs THEN MutResult(FALSE, FALSE, dirs, files)
        ELSE MutResult(TRUE, FALSE, dirs, files \cup {rt.p})

\* filesystem.py:38-52  create_zip: the first name that no entry has
RECURSIVE FreeZip(_, _, _, _)
FreeZip(zip_root, i, dirs, files) ==
    IF ~exists(zip_root, dirs, files) \/ i > MaxMuts + 1 THEN zip_root
    ELSE FreeZip(ReplaceZip(zip_root, i), i + 1, dirs, files)

\* generate_archive.py:19-52  GenerateArchiveService.generate_archive with
\* one selected path: the archive file is created in root_path
generate_archive_in(user, path, selected, dirs, files) ==
    LET BASE_PATH == get_user_path(user)
        root_path == IF path = <<>> \/ ~startswith(path, BASE_PATH) THEN BASE_PATH ELSE path
        archive_name == slugify(basename(selected)) \o <<ZipExt>>
        zip_root == FreeZip(pathjoin(root_path, archive_name), FirstZipRound, dirs, files)
        rz == OsResolve(zip_root, dirs)
    IN  IF rz.ok /\ isdir(root_path, dirs) /\ ~exists(zip_root, dirs, files)
          THEN MutResult(TRUE, FALSE, dirs, files \cup {rz.p})
          ELSE MutResult(FALSE, FALSE, dirs, files)

\* file_upload.py:19-42  FileUploadService.upload_file; os.path.join(None,
\* f.name) raises before the try block when the field is absent
upload_file(user, path, fname, dirs, files) ==
    IF path = <<>> THEN MutResult(FALSE, TRUE, dirs, files)
    ELSE LET dest_path == pathjoin(path, fname)
             rd == OsResolve(dest_path, dirs)
         IN  IF is_allowed(path, user) /\ ~exists(dest_path, dirs, files) /\ rd.ok
               THEN MutResult(TRUE, FALSE, dirs, files \cup {rd.p})
               ELSE MutResult(FALSE, FALSE, dirs, files)

\* list_files.py:37-44  the directory that get_files_list lists
list_root(user, path, dirs, files) ==
    LET BASE_PATH == get_user_path(user)
        p1 == IF path = <<>> \/ ~exists(path, dirs, files) THEN BASE_PATH ELSE path
    IN  IF ~startswith(p1, BASE_PATH) THEN BASE_PATH ELSE p1

\* the home of tenant a holds the socket directory r (run), the profile file
\* P (.profile), the directory p with the files x, s and t and the directory p/q
Home == get_user_path(Alice)
MutInitDirs == InitDirs \cup {pathjoin(Home, <<"r">>), pathjoin(Home, <<"p", "/", "q">>)}
MutInitFiles == InitFiles \cup {pathjoin(Home, <<"P">>), pathjoin(Home, <<"p", "/", "s">>),
                               pathjoin(Home, <<"p", "/", "t">>)}

\* the `path` values of the requests (<<>>: the field is absent) and names
MutPaths == {<<>>, Home, pathjoin(Home, <<"p">>), pathjoin(Home, <<"p", "/", "q">>)}
MutNames == {<<"n">>, <<"P">>, <<"r">>, <<"x">>}
MutSources == {pathjoin(Home, <<"p", "/", "s">>), pathjoin(Home, <<"p", "/", "t">>)}
Mutations == {"create_item", "rename_item", "move_data", "generate_archive", "upload"}

Changed(r) ==
    ((mtDirs \cup r.dirs) \ (mtDirs \cap r.dirs)) \cup
    ((mtFiles \cup r.files) \ (mtFiles \cap r.files))

Serve(op, user, path, gated, r) ==
    /\ mtCount < MaxMuts
    /\ mtCount' = mtCount + 1
    /\ mtDirs' = r.dirs
    /\ mtFiles' = r.files
    /\ mtLast' = [op |-> op, user |-> user, path |-> path, gated |-> gated,
                  ok |-> r.ok, raised |-> r.raised, changed |-> Changed(r),
                  root |-> <<>>]
    /\ UNCHANGED notMt

\* views.py and create_item.py:15-49  an item is created
MutCreate(user) ==
    \E path \in MutPaths, item_type \in {"file", "directory"}, item_name \in MutNames :
        LET c == create_item(user, path, item_type, item_name, mtDirs, mtFiles)
        IN  Serve("create_item", user, path, FALSE, MutResult(c.ok, FALSE, c.dirs, c.files))

\* rename_item.py:17-55
MutRename(user) ==
    \E path \in MutPaths, old_name \in MutNames, new_name \in MutNames :
        Serve("rename_item", user, path, FALSE,
              rename_item_at(user, path, old_name, new_name, mtDirs, mtFiles))

\* move_items.py:17-58
MutMove(user) ==
    \E path \in MutPaths, p \in MutSources, action \in {"move", "copy"} :
        Serve("move_data", user, path, FALSE,
              move_data_to(user, path, p, action, mtDirs, mtFiles))

\* generate_archive.py:19-52
MutArchive(user) ==
    \E path \in MutPaths, selected \in MutSources :
        Serve("generate_archive", user, path, FALSE,
              generate_archive_in(user, path, selected, mtDirs, mtFiles))

\* file_upload.py:19-42
MutUpload(user) ==
    \E path \in MutPaths, fname \in MutNames :
        Serve("upload", user, path, path # <<>> /\ is_allowed(path, user),
              upload_file(user, path, fname, mtDirs, mtFiles))

\* list_files.py:16-44
MutList(user) ==
    \E path \in MutPaths :
        /\ mtCount < MaxMuts
        /\ mtCount' = mtCount + 1
        /\ mtLast' = [op |-> "list", user |-> user, path |-> path, gated |-> FALSE,
                      ok |-> TRUE, raised |-> FALSE, changed |-> {},
                      root |-> list_root(user, path, mtDirs, mtFiles)]
        /\ UNCHANGED <<mtDirs, mtFiles>>
        /\ UNCHANGED notMt

InitMut ==
    /\ OthersIdle("mt")
    /\ mtDirs = MutInitDirs
    /\ mtFiles = MutInitFiles
    /\ mtCount = 0
    /\ mtLast = [op |-> "none"]

NextMut ==
    \/ MutCreate(Alice)
    \/ MutRename(Alice)
    \/ MutMove(Alice)
    \/ MutArchive(Alice)
    \/ MutUpload(Alice)
    \/ MutList(Alice)

SpecMut == InitMut /\ [][NextMut]_vars

(***************************************************************************)
(* Archive round trip: create_zip, extract_zip                             *)
(***************************************************************************)
\* str.replace(old, new): every occurrence, from the left, without overlap
RECURSIVE Replace(_, _, _)
Replace(v, old, new) ==
    IF v = <<>> THEN <<>>
    ELSE IF startswith(v, old) THEN new \o Replace(SubSeq(v, Len(old) + 1, Len(v)), old, new)
    ELSE <<Head(v)>> \o Replace(Tail(v), old, new)

\* str.lstrip('/')
RECURSIVE LStripSlash(_)
LStripSlash(v) == IF v # <<>> /\ Head(v) = "/" THEN LStripSlash(Tail(v)) ELSE v

\* filesystem.py:63  the name of p inside the archive
arcname(p, root_path) == LStripSlash(Replace(p, root_path, <<>>))

\* filesystem.py:56-68  iter_subtree: the entries of the selected top-level
\* entries of root_path and of their subtrees
Written(tree, selected) == {e \in tree : \E s \in selected : Below(e.p, s)}

\* filesystem.py:24-69  create_zip(root_path, file_name, selected): the
\* members of the archive
create_zip(root_path, tree, selected) ==
    {[name |-> arcname(e.p, root_path), dir |-> e.dir, content |-> e.content] :
        e \in Written(tree, selected)}

\* filesystem.py:10-21  extract_zip(root_path, archive_path): every member is
\* placed at its name below root_path
extract_zip(root_path, archive) ==
    {[p |-> pathjoin(root_path, m.name), dir |-> m.dir, content |-> m.content] :
        m \in archive}

\* the archive root /d, the destination /o and the entries that may exist
\* below the root: x, x/y, x/d, x/d/y, d, d/y and y
ZipRoot == <<"/", "d">>
ZipDest == <<"/", "o">>
TreeDir(rel) == [p |-> pathjoin(ZipRoot, rel), dir |-> TRUE, content |-> "none"]
TreeFile(rel, c) == [p |-> pathjoin(ZipRoot, rel), dir |-> FALSE, content |-> c]
TreeEntries == {TreeDir(<<"x">>), TreeFile(<<"x", "/", "y">>, "c1"),
                TreeDir(<<"x", "/", "d">>), TreeFile(<<"x", "/", "d", "/", "y">>, "c2"),
                TreeDir(<<"d">>), TreeFile(<<"d", "/", "y">>, "c3"),
                TreeFile(<<"y">>, "c4")}
ParentClosed(tree) ==
    \A e \in tree : \A a \in Ancestry(e.p) :
        (a # e.p /\ Below(a, ZipRoot) /\ a # ZipRoot) => \E f \in tree : f.p = a /\ f.dir
TopLevel(tree) == {e.p : e \in {f \in tree : Len(split(f.p)) = Len(split(ZipRoot)) + 1}}

\* generate_archive followed by extract_archive into an empty directory
RoundTrip ==
    \E selected \in SUBSET TopLevel(rtTree) :
        /\ selected # {}
        /\ LET archive == create_zip(ZipRoot, rtTree, selected)
           IN  rtLast' = [ran |-> TRUE, selected |-> selected,
                          extracted |-> extract_zip(ZipDest, archive)]
        /\ UNCHANGED rtTree
        /\ UNCHANGED notRt

InitRound ==
    /\ OthersIdle("rt")
    /\ rtTree \in {t \in SUBSET TreeEntries : t # {} /\ ParentClosed(t)}
    /\ rtLast = [ran |-> FALSE]

NextRound == RoundTrip

SpecRound == InitRound /\ [][NextRound]_vars

(***************************************************************************)
(* Domain verification: FastcpSsl.is_resolving                             *)
(***************************************************************************)
\* ssl.py:12  FCP_VERIFY_STR; a body is a sequence of atoms, the verification
\* string being one atom
FCP_VERIFY_STR == <<"fastcp">>

Whitespace == {" ", "\n", "\t"}

\* str.strip() without argument: leading and trailing whitespace is removed
RECURSIVE StripWs(_)
StripWs(v) ==
    IF v # <<>> /\ Head(v) \in Whitespace THEN StripWs(Tail(v))
    ELSE IF v # <<>> /\ v[Len(v)] \in Whitespace THEN StripWs(SubSeq(v, 1, Len(v) - 1))
    ELSE v

\* ssl.py:64 with the body compared as it came
VerifyResponse_NoStrip(status_code, text) ==
    status_code = "200" /\ text = FCP_VERIFY_STR

\* ssl.py:64  res.status_code == 200 and res.text.strip() == FCP_VERIFY_STR
VerifyResponse(status_code, text) ==
    status_code = "200" /\ StripWs(text) = FCP_VERIFY_STR

\* what requests.get does: a response, or an exception
FetchStatuses == {"200", "404", "500"}
FetchBodies == {FCP_VERIFY_STR, <<" ", "fastcp", "\n">>, <<"fastcp", "x">>, <<>>,
                <<"f">>, <<"\t", "\n">>}
FetchErrors == {"ConnectionError", "Timeout"}
Fetches == [kind : {"response"}, status_code : FetchStatuses, text : FetchBodies, error : {"none"}]
           \cup [kind : {"raise"}, status_code : {"none"}, text : {<<>>}, error : FetchErrors]

\* http.py:6-23  open_url under the toggle: RuntimeError before any request
\* when it is "1", otherwise what requests.get gives
open_url_get(toggle, fetch) ==
    IF toggle = "1"
      THEN [kind |-> "raise", status_code |-> "none", text |-> <<>>, error |-> "RuntimeError"]
      ELSE fetch

\* ssl.py:49-69  is_resolving(domain): the returned value, and whether an
\* exception leaves the method
is_resolving_fetch(toggle, fetch) ==
    LET res == open_url_get(toggle, fetch)
    IN  IF res.kind = "raise" THEN [ret |-> FALSE, raised |-> FALSE, res |-> res]
        ELSE [ret |-> VerifyResponse(res.status_code, res.text), raised |-> FALSE, res |-> res]

CheckResolving ==
    \E domain \in Domains, fetch \in Fetches :
        LET r == is_resolving_fetch(rvToggle, fetch)
        IN  /\ rvLast' = [called |-> TRUE, domain |-> domain, res |-> r.res,
                          ret |-> r.ret, raised |-> r.raised]
            /\ UNCHANGED rvToggle
            /\ UNCHANGED notRv

\* the environment variable is set or cleared between calls
SetNetworkToggle ==
    /\ \E t \in ToggleValues : t # rvToggle /\ rvToggle' = t
    /\ UNCHANGED rvLast
    /\ UNCHANGED notRv

InitResolve ==
    /\ OthersIdle("rv")
    /\ rvToggle = "unset"
    /\ rvLast = [called |-> FALSE]

NextResolve ==
    \/ CheckResolving
    \/ SetNetworkToggle

SpecResolve == InitResolve /\ [][NextResolve]_vars

(***************************************************************************)
(* ACME directory: FastcpAcme.__init__                                     *)
(***************************************************************************)
\* fcp_acme.py:12-13  the two module constants; a URL is scheme, host, path
DIRECTORY_URL == <<"https://", "acme-staging-v02.api.letsencrypt.org", "/directory">>
STAGING_DIRECTORY_URL == <<"https://", "acme-v02.api.letsencrypt.org", "/directory">>

\* fcp_acme.py:57-60  the directory URL chosen by FastcpAcme.__init__
dir_url(staging) == IF staging THEN STAGING_DIRECTORY_URL ELSE DIRECTORY_URL

\* ssl.py:112-116 and fcp_acme.py:62-63  get_ssl constructs the client with
\* staging=settings.LETSENCRYPT_IS_STAGING; the client fetches its directory
ConstructAcme ==
    /\ Len(dirLog) < MaxClients
    /\ dirLog' = Append(dirLog, [staging |-> dirSetting, url |-> dir_url(dirSetting)])
    /\ UNCHANGED dirSetting
    /\ UNCHANGED notDir

\* the operator changes LETSENCRYPT_IS_STAGING in the settings
SetStaging ==
    /\ dirSetting' = ~dirSetting
    /\ UNCHANGED dirLog
    /\ UNCHANGED notDir

InitDirectory ==
    /\ OthersIdle("dir")
    /\ dirSetting \in BOOLEAN
    /\ dirLog = <<>>

NextDirectory ==
    \/ ConstructAcme
    \/ SetStaging

SpecDir == InitDirectory /\ [][NextDirectory]_vars

(***************************************************************************)
(* Challenges of an order: FastcpAcme.request_ssl, FastcpAcme.get_ssl      *)
(***************************************************************************)
\* a challenge is [authz, type]; its key-authorization response is named
\* after the authorization it belongs to
ChallTypes == {"http-01", "dns-01"}
Offers == {{"http-01", "dns-01"}, {"dns-01"}, {"http-01"}}

\* fcp_acme.py:119-143  _select_chall: the HTTP-01 challenges of the
\* authorizations, in order
RECURSIVE select_chall(_, _)
select_chall(orderr, i) ==
    IF i > Len(orderr) THEN <<>>
    ELSE (IF "http-01" \in orderr[i] THEN <<i>> ELSE <<>>) \o select_chall(orderr, i + 1)

\* fcp_acme.py:173-190  the loop of request_ssl: every challenge is appended
\* to challs_list and self.response is assigned its response
RECURSIVE RequestLoop(_, _, _)
RequestLoop(challs, list, response) ==
    IF challs = <<>> THEN [challs_list |-> list, response |-> response]
    ELSE RequestLoop(Tail(challs), Append(list, Head(challs)), Head(challs))

\* fcp_acme.py:144-192  request_ssl(domains): new_order, then the loop
RequestSsl ==
    /\ chPc = "idle"
    /\ \E n \in 1..MaxAuthz : \E orderr \in [1..n -> Offers] :
          LET r == RequestLoop(select_chall(orderr, 1), <<>>, "none")
          IN  /\ chOrder' = orderr
              /\ chList' = r.challs_list
              /\ chResponse' = r.response
    /\ chAnswers' = <<>>
    /\ chPc' = "answering"
    /\ UNCHANGED notCh

\* fcp_acme.py:204-205  one round of the loop of get_ssl:
\* self.client.answer_challenge(chall, self.response); an error of the CA
\* ends the loop
AnswerNext ==
    /\ chPc = "answering"
    /\ Len(chAnswers) < Len(chList)
    /\ \E accepted \in BOOLEAN :
          /\ chAnswers' = Append(chAnswers, [chall |-> chList[Len(chAnswers) + 1],
                                             response |-> chResponse])
          /\ chPc' = IF accepted THEN "answering" ELSE "failed"
    /\ UNCHANGED <<chOrder, chList, chResponse>>
    /\ UNCHANGED notCh

\* fcp_acme.py:206-210  poll_and_finalize ends the issuance
Finalize ==
    /\ chPc = "answering"
    /\ Len(chAnswers) = Len(chList)
    /\ chPc' = "finalized"
    /\ UNCHANGED <<chOrder, chList, chResponse, chAnswers>>
    /\ UNCHANGED notCh

InitChall ==
    /\ OthersIdle("ch")
    /\ chOrder = <<>>
    /\ chList = <<>>
    /\ chResponse = "none"
    /\ chAnswers = <<>>
    /\ chPc = "idle"

NextChall ==
    \/ RequestSsl
    \/ AnswerNext
    \/ Finalize

SpecChall == InitChall /\ [][NextChall]_vars

(***************************************************************************)
(* PHP version changes: ChangePHPVersion.post, update_php_handler          *)
(***************************************************************************)
PhpVersions == {"7.4", "8.0", "8.1"}
PhpRequests == {"r1", "r2"}

\* filesystem.py:145-149  fpm_path of a website: the version's pool directory;
\* phpPools[version] stands for <PHP_INSTALL_PATH>/<version>/fpm/pool.d/<slug>.conf
fpm_path(php) == php

\* filesystem.py:462-469  delete_fpm_conf: the file under the pool directory
\* of the object's version is removed when it exists
delete_fpm_conf_of(pools, php) ==
    IF pools[fpm_path(php)] # "none"
      THEN [pools EXCEPT ![fpm_path(php)] = "none"]
      ELSE pools

\* filesystem.py:426-451  generate_fpm_conf: the file is written under the
\* pool directory of the object's version
generate_fpm_conf(pools, php, writer) ==
    [pools EXCEPT ![fpm_path(php)] = writer]

\* views.py:141-161  ChangePHPVersion.post: the request loads the website and
\* sends update_php when the version differs
PostChange(r) ==
    /\ phpReq[r].pc = "idle"
    /\ \E new_version \in PhpVersions :
          phpReq' = [phpReq EXCEPT ![r] =
                        [pc |-> IF phpDb # new_version THEN "delete" ELSE "done",
                         php |-> phpDb, new |-> new_version,
                         sent |-> phpDb # new_version]]
    /\ UNCHANGED <<phpDb, phpPools, phpWrites>>
    /\ UNCHANGED notPhp

\* signals.py:22  filesystem.delete_fpm_conf(sender)
HandlerDelete(r) ==
    /\ phpReq[r].pc = "delete"
    /\ phpPools' = delete_fpm_conf_of(phpPools, phpReq[r].php)
    /\ phpReq' = [phpReq EXCEPT ![r].pc = "save"]
    /\ UNCHANGED <<phpDb, phpWrites>>
    /\ UNCHANGED notPhp

\* signals.py:23-26  sender.php = new_version; sender.save()
HandlerSave(r) ==
    /\ phpReq[r].pc = "save"
    /\ phpDb' = phpReq[r].new
    /\ phpReq' = [phpReq EXCEPT ![r].pc = "generate", ![r].php = phpReq[r].new]
    /\ UNCHANGED <<phpPools, phpWrites>>
    /\ UNCHANGED notPhp

\* signals.py:27  filesystem.generate_fpm_conf(sender)
HandlerGenerate(r) ==
    /\ phpReq[r].pc = "generate"
    /\ phpPools' = generate_fpm_conf(phpPools, phpReq[r].php, r)
    /\ phpWrites' = Append(phpWrites, r)
    /\ phpReq' = [phpReq EXCEPT ![r].pc = "done"]
    /\ UNCHANGED phpDb
    /\ UNCHANGED notPhp

\* a website created under some version: its row and its pool configuration
InitPhp ==
    /\ OthersIdle("php")
    /\ phpDb \in PhpVersions
    /\ phpPools = [v \in PhpVersions |-> IF v = phpDb THEN "create" ELSE "none"]
    /\ phpReq = [r \in PhpRequests |->
                    [pc |-> "idle", php |-> "none", new |-> "none", sent |-> FALSE]]
    /\ phpWrites = <<>>

NextPhp ==
    \E r \in PhpRequests :
        \/ PostChange(r)
        \/ HandlerDelete(r)
        \/ HandlerSave(r)
        \/ HandlerGenerate(r)

SpecPhp == InitPhp /\ [][NextPhp]_vars

(***************************************************************************)
(* Artifacts of websites on disk: get_website_paths and the provisioning   *)
(* and teardown functions of filesystem.py                                 *)
(***************************************************************************)
\* A path is a sequence of segments and a segment is a tuple of strings:
\* <<"apps">> is the name apps, <<slug, ".conf">> the name f'{slug}.conf'.
\* The roots of the settings are one segment each.
FrSlugs == {"a", "www"}
FrVersions == {"7.4", "8.0"}
FrUsers == {"u"}
FrServers == {"nginx", "apache"}

Entry(path, content) == [path |-> path, content |-> content]
Exists(disk, path) == \E e \in disk : e.path = path
IsUnder(path, root) ==
    Len(path) >= Len(root) /\ SubSeq(path, 1, Len(root)) = root

\* filesystem.py:110-129  get_user_paths
get_user_paths(username) ==
    LET user_path == <<(<<"FILE_MANAGER_ROOT">>), <<username>>>>
    IN  [base_path |-> user_path,
         apps_path |-> user_path \o <<(<<"apps">>)>>,
         run_path  |-> user_path \o <<(<<"run">>)>>,
         logs_path |-> user_path \o <<(<<"logs">>)>>]

\* filesystem.py:132-162  get_website_paths
get_website_paths(website) ==
    LET user_paths == get_user_paths(website.user)
        web_base == user_paths.apps_path \o <<(<<website.slug>>)>>
        fpm_root == <<(<<"PHP_INSTALL_PATH">>), <<website.php>>, <<"fpm">>, <<"pool.d">>>>
        ssl_base == <<(<<"NGINX_BASE_DIR">>), <<"ssl">>, <<website.slug>>>>
    IN  [fpm_root |-> fpm_root,
         fpm_path |-> fpm_root \o <<(<<website.slug, ".conf">>)>>,
         base_path |-> web_base,
         web_root |-> web_base \o <<(<<"public">>)>>,
         socket_path |-> user_paths.run_path \o <<(<<website.slug, ".sock">>)>>,
         ngix_vhost_dir |-> <<(<<"NGINX_VHOSTS_ROOT">>), <<website.slug, ".d">>>>,
         ngix_vhost_conf |-> <<(<<"NGINX_VHOSTS_ROOT">>), <<website.slug, ".conf">>>>,
         apache_vhost_dir |-> <<(<<"APACHE_VHOST_ROOT">>), <<website.slug, ".d">>>>,
         apache_vhost_conf |-> <<(<<"APACHE_VHOST_ROOT">>), <<website.slug, ".conf">>>>,
         ssl_base |-> ssl_base,
         priv_key_path |-> ssl_base \o <<(<<"priv.key">>)>>,
         cert_chain_path |-> ssl_base \o <<(<<"cert.chain">>)>>]

\* os.makedirs: the directory and its missing ancestors
makedirs(disk, path) ==
    disk \cup {Entry(SubSeq(path, 1, n), "dir") :
                  n \in {k \in 1..Len(path) : ~Exists(disk, SubSeq(path, 1, k))}}

\* filesystem.py:164-181  create_if_missing
create_if_missing(disk, path) ==
    IF ~Exists(disk, path) THEN makedirs(disk, path) ELSE disk

\* os.remove of a path, shutil.rmtree of a tree
remove(disk, path) == {e \in disk : e.path # path}
rmtree(disk, path) == {e \in disk : ~IsUnder(e.path, path)}

\* open(path, 'w') and write: fails, changing nothing, without the directory
write_file(disk, path, content) ==
    IF Exists(disk, SubSeq(path, 1, Len(path) - 1))
      THEN remove(disk, path) \cup {Entry(path, content)}
      ELSE disk

\* filesystem.py:364-383  create_user_dirs
create_user_dirs(disk, username) ==
    LET user_paths == get_user_paths(username)
    IN  create_if_missing(create_if_missing(create_if_missing(create_if_missing(
            disk, user_paths.base_path), user_paths.run_path),
            user_paths.logs_path), user_paths.apps_path)

\* filesystem.py:385-403  create_website_dirs
create_website_dirs(disk, website) ==
    LET website_paths == get_website_paths(website)
    IN  create_if_missing(create_if_missing(create_user_dirs(disk, website.user),
            website_paths.base_path), website_paths.web_root)

\* filesystem.py:415-451  generate_fpm_conf: the default pool www.conf of the
\* pool directory is removed when it exists, then the pool file is written
generate_fpm_conf_in(disk, website) ==
    LET paths == get_website_paths(website)
        default_conf == paths.fpm_root \o <<(<<"www", ".conf">>)>>
        cleared == IF Exists(disk, default_conf) THEN remove(disk, default_conf) ELSE disk
    IN  write_file(cleared, paths.fpm_path, website.slug)

\* filesystem.py:453-473  delete_fpm_conf
delete_fpm_conf_in(disk, website) ==
    LET conf_path == get_website_paths(website).fpm_path
    IN  IF Exists(disk, conf_path) THEN remove(disk, conf_path) ELSE disk

\* filesystem.py:245-290 and 292-362  create_apache_vhost, create_nginx_vhost:
\* the '.d' directory is created when missing and the vhost file written
create_vhost_in(disk, website, server) ==
    LET website_paths == get_website_paths(website)
        dir == IF server = "nginx" THEN website_paths.ngix_vhost_dir
                                   ELSE website_paths.apache_vhost_dir
        conf == IF server = "nginx" THEN website_paths.ngix_vhost_conf
                                    ELSE website_paths.apache_vhost_conf
    IN  write_file(create_if_missing(disk, dir), conf, website.slug)

\* filesystem.py:183-206 and 208-230  delete_apache_vhost, delete_nginx_vhost:
\* rmtree of the '.d' directory, which raises when it is missing, then the
\* vhost file
delete_vhost_in(disk, website, server) ==
    LET website_paths == get_website_paths(website)
        dir == IF server = "nginx" THEN website_paths.ngix_vhost_dir
                                   ELSE website_paths.apache_vhost_dir
        conf == IF server = "nginx" THEN website_paths.ngix_vhost_conf
                                    ELSE website_paths.apache_vhost_conf
    IN  IF ~Exists(disk, dir) THEN disk
        ELSE IF Exists(rmtree(disk, dir), conf) THEN remove(rmtree(disk, dir), conf)
        ELSE rmtree(disk, dir)

\* ssl.py:96-100 and 180-197  the certificate directory is created when
\* missing, the key and the chain are written
write_ssl_certs(disk, website) ==
    LET paths == get_website_paths(website)
        made == IF ~Exists(disk, paths.ssl_base) THEN makedirs(disk, paths.ssl_base) ELSE disk
    IN  write_file(write_file(made, paths.priv_key_path, website.slug),
                   paths.cert_chain_path, website.slug)

\* filesystem.py:233-243  delete_ssl_certs
delete_ssl_certs_in(disk, website) ==
    LET ssl_base == get_website_paths(website).ssl_base
    IN  IF Exists(disk, ssl_base) THEN rmtree(disk, ssl_base) ELSE disk

\* system.py:69-85  setup_website: the directories, then the pool file
setup_website(disk, website) ==
    generate_fpm_conf_in(create_website_dirs(disk, website), website)

\* the artifacts of a website on disk: its directory tree, pool file, socket,
\* vhost directories and files, certificate directory
ArtifactRoots(website) ==
    LET paths == get_website_paths(website)
    IN  {paths.base_path, paths.fpm_path, paths.socket_path,
         paths.ngix_vhost_dir, paths.ngix_vhost_conf,
         paths.apache_vhost_dir, paths.apache_vhost_conf, paths.ssl_base}
ArtifactsOn(disk, website) ==
    {e \in disk : \E root \in ArtifactRoots(website) : IsUnder(e.path, root)}

FrameOps == {"create_website_dirs", "generate_fpm_conf", "delete_fpm_conf",
             "create_vhost", "delete_vhost", "write_ssl_certs", "delete_ssl_certs"}
FrameAfter(op, disk, website, server) ==
    CASE op = "create_website_dirs" -> create_website_dirs(disk, website)
      [] op = "generate_fpm_conf" -> generate_fpm_conf_in(disk, website)
      [] op = "delete_fpm_conf" -> delete_fpm_conf_in(disk, website)
      [] op = "create_vhost" -> create_vhost_in(disk, website, server)
      [] op = "delete_vhost" -> delete_vhost_in(disk, website, server)
      [] op = "write_ssl_certs" -> write_ssl_certs(disk, website)
      [] op = "delete_ssl_certs" -> delete_ssl_certs_in(disk, website)

FrameRecord(op, website, before, after) ==
    [op |-> op, site |-> website.slug,
     changed |-> {b.slug : b \in {x \in frSites \ {website} :
                                     ArtifactsOn(before, x) # ArtifactsOn(after, x)}}]

\* models.py:165-177 and system.py:69-85  a website is created under a slug
\* no website has, and set up
SetupWebsite ==
    /\ \E slug \in FrSlugs \ {w.slug : w \in frSites} :
       \E php \in FrVersions : \E user \in FrUsers :
          LET website == [slug |-> slug, php |-> php, user |-> user]
              after == setup_website(frDisk, website)
          IN  /\ frSites' = frSites \cup {website}
              /\ frDisk' = after
              /\ frLast' = FrameRecord("setup_website", website, frDisk, after)
    /\ UNCHANGED frOps
    /\ UNCHANGED notFrame

\* one provisioning or teardown operation on a live website
FrameOp ==
    /\ frOps < MaxFrameOps
    /\ \E website \in frSites : \E op \in FrameOps : \E server \in FrServers :
          LET after == FrameAfter(op, frDisk, website, server)
          IN  /\ frDisk' = after
              /\ frLast' = FrameRecord(op, website, frDisk, after)
    /\ frOps' = frOps + 1
    /\ UNCHANGED frSites
    /\ UNCHANGED notFrame

\* the servers are installed: the pool directory of every PHP version with
\* its default pool, the vhost roots, the NGINX base directory
InstalledDisk ==
    UNION {makedirs({}, <<(<<"PHP_INSTALL_PATH">>), <<v>>, <<"fpm">>, <<"pool.d">>>>)
              \cup {Entry(<<(<<"PHP_INSTALL_PATH">>), <<v>>, <<"fpm">>, <<"pool.d">>,
                            <<"www", ".conf">>>>, "default")} : v \in FrVersions}
    \cup {Entry(<<(<<"NGINX_VHOSTS_ROOT">>)>>, "dir"), Entry(<<(<<"APACHE_VHOST_ROOT">>)>>, "dir"),
          Entry(<<(<<"NGINX_BASE_DIR">>)>>, "dir"), Entry(<<(<<"FILE_MANAGER_ROOT">>)>>, "dir")}

InitFrame ==
    /\ OthersIdle("fr")
    /\ frSites = {}
    /\ frDisk = InstalledDisk
    /\ frOps = 0
    /\ frLast = [op |-> "none"]

NextFrame ==
    \/ SetupWebsite
    \/ FrameOp

SpecFrame == InitFrame /\ [][NextFrame]_vars

(***************************************************************************)
(* Claims: certificate lifecycle                                           *)
(***************************************************************************)
Attempted == att.w # "none"

\* C1: FastcpSsl.get_ssl returns True only when the ACME order was finalized
\* and the certificate chain and the private key were written; when the ACME
\* client reports failure, or any step raises, it returns False.
C1_TrueOnlyWhenIssued ==
    Attempted =>
        /\ att.ret => (att.finalized /\ att.wroteKey /\ att.wroteCert)
        /\ (att.raised \/ (att.placed /\ ~att.finalized)) => ~att.ret

\* C2: the domain list of the ACME order is exactly the set of attached
\* domains for which is_resolving returned True, no order is placed when that
\* set is empty, and a domain outside that set whose ssl flag was false before
\* the call still has ssl = false after it.
C2_OrderIsVerifiedSet ==
    Attempted =>
        /\ att.placed => (SeqToSet(att.order) = att.resolving /\ att.resolving # {})
        /\ att.placed => Len(att.order) = Cardinality(att.resolving)
        /\ \A d \in Domains \ att.resolving : d \notin att.sslBefore => ~domSsl[d]

\* a website with two domains of which one resolves got its certificate, and
\* the other domain is still unverified
C2_Witness ==
    /\ att.w = "w1" /\ att.placed /\ att.finalized /\ att.ret
    /\ att.resolving = {"d1"}
    /\ domSsl["d1"] /\ ~domSsl["d2"]

\* C3: without a priv.key file a new private key is generated and used for the
\* CSR (and written on success); with a priv.key file the CSR is built from
\* that key and the key on disk after a successful renewal is the same key.
C3_KeyGeneratedOrReused ==
    (Attempted /\ att.csrTried) =>
        /\ att.keyBefore = NoFile =>
              /\ att.generated
              /\ att.placed => att.csrKey = FreshKey
              /\ att.wroteKey => privKey[att.w] = FreshKey
        /\ att.keyBefore # NoFile =>
              /\ ~att.generated
              /\ att.placed => att.csrKey = att.keyBefore
              /\ att.wroteKey => privKey[att.w] = att.keyBefore

\* C4: the renewal scan does not call get_ssl for a website (all of whose
\* domains are verified) whose certificate is valid for more than RenewDays
\* days, and attempts renewal when not_valid_after <= now; ssl_expiring is
\* true exactly when at most RenewDays days of validity remain.
C4_RenewalWindow ==
    /\ (scanLog.w # "none" /\ scanLog.certSt = "valid" /\ ~scanLog.needs) =>
          /\ scanLog.left > RenewDays * TicksPerDay => scanLog.act = "skipped"
          /\ scanLog.left <= 0 => scanLog.act = "attempted"
    /\ \A w \in Websites : certChain[w].st = "valid" =>
          (ssl_expiring(w) = "yes" <=> certChain[w].notAfter - now <= RenewDays * TicksPerDay)

\* C5: a failure while processing one website never keeps the scan from
\* processing the remaining websites, and no exception leaves the scan.
C5_ScanNeverAborts ==
    scanState # "crashed"

(***************************************************************************)
(* Claims: file-manager path validation                                    *)
(***************************************************************************)
\* percent-decoding carried to the end: no encoded atom is left
RECURSIVE FullyDecoded(_)
FullyDecoded(v) == IF unquote(v) = v THEN v ELSE FullyDecoded(unquote(v))

\* `path` lies inside the directory `root`: it is root or a descendant of it
LiesInside(path, root) ==
    \/ path = root
    \/ startswith(path, root \o <<"/">>)

\* C6: every input path that, after percent-decoding and normalization, does
\* not lie inside the requesting tenant's sandbox root (FILE_MANAGER_ROOT/<user>
\* for a tenant, FILE_MANAGER_ROOT for an administrator) is rejected by
\* validate_path.
C6_OutsideSandboxRejected ==
    (valRes.called /\ reqPath # <<>>) =>
        (~LiesInside(normpath(strip(FullyDecoded(reqPath))), get_user_path(reqUser))
            => ~valRes.ok)

(***************************************************************************)
(* Claims: file-manager mutations                                          *)
(***************************************************************************)
OutsideOf(user, paths) == {q \in paths : ~Below(q, get_user_path(user))}

\* C7: the file-manager mutations of a non-administrator tenant create,
\* remove, move or modify only entries inside that tenant's sandbox root: the
\* entries outside FILE_MANAGER_ROOT/<username> stay what they were.
C7_MutationsStayInSandbox ==
    fmLast.op # "none" =>
        /\ OutsideOf(Alice, fsDirs) = OutsideOf(Alice, InitDirs)
        /\ OutsideOf(Alice, fsFiles) = OutsideOf(Alice, InitFiles)

(***************************************************************************)
(* Claims: website slugs                                                   *)
(***************************************************************************)
SlugsDistinct == \A v \in sites, w \in sites : v.id # w.id => v.slug # w.slug

\* C8: over the website creations whose labels slugify to the same base, each
\* created website receives a slug whose numeric suffix is strictly greater
\* than every suffix assigned earlier for that base, and no two live websites
\* share a slug.
C8_SuffixStrictlyIncreasing ==
    /\ \A i \in 1..Len(siteLog), j \in 1..Len(siteLog) :
          (i < j /\ siteLog[i].base = siteLog[j].base) => siteLog[j].sfx > siteLog[i].sfx
    /\ SlugsDistinct

\* C8 as the code has it: a created website receives the candidate with the
\* least suffix that no live website holds; live slugs are pairwise distinct;
\* the suffixes of one base increase strictly as long as no slug was
\* released before the creation (by a deletion or by a save that changed one).
C8_LeastFreeSuffix ==
    /\ \A j \in 1..Len(siteLog) :
          /\ siteLog[j].slug = SlugAt(siteLog[j].base, siteLog[j].sfx)
          /\ siteLog[j].slug \notin siteLog[j].taken
          /\ \A k \in 0..(siteLog[j].sfx - 1) : SlugAt(siteLog[j].base, k) \in siteLog[j].taken
    /\ \A i \in 1..Len(siteLog), j \in 1..Len(siteLog) :
          (i < j /\ siteLog[i].base = siteLog[j].base /\ siteLog[j].freed = 0)
              => siteLog[j].sfx > siteLog[i].sfx
    /\ SlugsDistinct

\* a website was created after a deletion and received a suffix that is not
\* above one assigned earlier for its base, while two websites are live
C8_Witness ==
    /\ Cardinality(sites) >= 2
    /\ \E i \in 1..Len(siteLog), j \in 1..Len(siteLog) :
          /\ i < j
          /\ siteLog[i].base = siteLog[j].base
          /\ siteLog[j].sfx <= siteLog[i].sfx
          /\ siteLog[j].freed > 0

(***************************************************************************)
(* Claims: archives                                                        *)
(***************************************************************************)
\* the name the k-th archive of a seed is to have: name.zip, name-1.zip, ...
ExpectedZip(seed, k) ==
    IF k = 0 THEN seed
    ELSE SubSeq(seed, 1, Len(seed) - 1) \o <<"-">> \o Decimal(k) \o <<ZipExt>>

EarlierSame(i) ==
    Cardinality({j \in 1..(i - 1) : zipLog[j].root = zipLog[i].root
                                    /\ zipLog[j].seed = zipLog[i].seed})

\* C9: creating N archives with the same seed name in the same directory
\* yields the files name.zip, name-1.zip, ..., name-(N-1).zip in creation
\* order, and no call overwrites an archive that exists.
C9_ArchiveNames ==
    \A i \in 1..Len(zipLog) :
        /\ ~zipLog[i].raised
        /\ ~zipLog[i].existed
        /\ zipLog[i].path = pathjoin(zipLog[i].root, ExpectedZip(zipLog[i].seed, EarlierSame(i)))

(***************************************************************************)
(* Claims: databases                                                       *)
(***************************************************************************)
\* C10: a request that would create a database for a tenant who already owns
\* max_dbs databases, on the database endpoint or on the WordPress
\* website-creation path, is rejected before a Database row is created and
\* before an engine statement runs; so the tenant owns at most max_dbs
\* databases, and the engine holds no database or account without a row.
C10_QuotaEnforced ==
    /\ (dbLast.op \in {"db", "site_wp"} /\ dbLast.before >= maxDbs)
          => (dbLast.rows = 0 /\ dbLast.stmts = 0)
    /\ Cardinality(OwnedBy(dbRows, Tenant.username)) <= maxDbs
    /\ engDbs \subseteq {r.name : r \in dbRows}
    /\ engUsers \subseteq {r.username : r \in dbRows}

(***************************************************************************)
(* Claims: domains of a website                                            *)
(***************************************************************************)
\* C11: a website keeps at least one attached domain in every reachable
\* state; a delete-domain request that finds a single domain is rejected and
\* deletes nothing, also when several such requests are served concurrently.
C11_OneDomainRemains ==
    /\ domAttached # {}
    /\ \A r \in DOMAIN delReq : delReq[r].seen = 1 => delReq[r].pc = "rejected"

(***************************************************************************)
(* Claims: tenant provisioning                                             *)
(***************************************************************************)
\* C12: whenever provisioning runs without a caller-supplied password, also
\* through the create_user signal of a request that carries none, the unix
\* account gets a freshly generated random password of at least 20 letters
\* and digits, never an empty one.
C12_RandomPasswordWhenNone ==
    \A u \in DOMAIN osAccounts :
        (osAccounts[u].via \in {"signal", "setup_user"} /\ osAccounts[u].supplied = PwNone)
            => /\ osAccounts[u].password.random
               /\ osAccounts[u].password.len >= RandLen

(***************************************************************************)
(* Claims: outbound network calls                                          *)
(***************************************************************************)
\* C13: while FASTCP_DISABLE_NETWORK is "1", every outbound call attempted
\* (open_url, the domain pre-check, remote upload, ACME client traffic) fails
\* with no network request issued, and open_url fails with RuntimeError.
C13_NoNetworkWhenDisabled ==
    \A i \in 1..Len(netLog) :
        netLog[i].toggle = "1" =>
            /\ ~netLog[i].issued
            /\ netLog[i].out \in FailedOutcomes
            /\ netLog[i].op = "open_url" => netLog[i].out = "RuntimeError"

(***************************************************************************)
(* Claims: process identity                                                *)
(***************************************************************************)
\* C14: every file-manager operation that switches identity with
\* set_uid(uid) has restored it with set_uid(0) when control leaves the
\* operation, on a normal return, an early return and an exception alike.
C14_IdentityRestored ==
    \A i \in 1..Len(uidLog) :
        (uidLog[i].switched /\ uidLog[i].before = RootCreds) => uidLog[i].after = RootCreds

(***************************************************************************)
(* Claims: website teardown                                                *)
(***************************************************************************)
\* C15: delete_website attempts all five teardown steps whatever the outcome
\* of an earlier one, never raises to its caller, and removes each artifact
\* that exists (and whose own removal is not refused) even when a sibling
\* artifact, such as the vhost '.d' directory, is already missing.
C15_TeardownComplete ==
    tdLast.ran =>
        /\ tdLast.steps = 5
        /\ ~tdLast.raised
        /\ \A a \in tdLast.before : a \notin tdLast.fails => a \notin tdLast.after

(***************************************************************************)
(* Claims: engine statements                                               *)
(***************************************************************************)
\* C16: setup_db runs its six statements in the order create user@localhost,
\* create user@%, create database, grant to user@localhost, grant to user@%,
\* flush privileges; it reports success only if every statement succeeded,
\* reports the failure of a statement as a boolean failure and not as an
\* exception, and leaves the effects of the statements before the failing one.
C16_SetupDbReporting ==
    \A n \in DOMAIN sqlLog :
        sqlLog[n].called =>
            /\ sqlLog[n].ran = SubSeq(SetupStatements, 1, Len(sqlLog[n].ran))
            /\ sqlLog[n].result = "True" <=> sqlLog[n].failAt = 0
            /\ sqlLog[n].failAt # 0 => sqlLog[n].result = "False"
            /\ \A k \in 1..Len(sqlLog[n].ran) :
                  k # sqlLog[n].failAt => <<n, sqlLog[n].ran[k]>> \in sqlEngine

(***************************************************************************)
(* Claims: service signals                                                 *)
(***************************************************************************)
\* C17: for a restart or reload signal the handler issues the command once
\* for every non-empty name of the list, in list order, whatever the outcome
\* of the command for an earlier name (non-zero exit, timeout, failure to
\* spawn), and no exception reaches the publisher.
C17_EveryNameIssued ==
    svcLast.topic # "none" =>
        /\ svcLast.issued = SelectSeq([i \in 1..Len(svcLast.services) |->
                                          StripName(svcLast.services[i])],
                                      LAMBDA n : n # "")
        /\ ~svcLast.raised

(***************************************************************************)
(* Claims: ACME account artifacts                                          *)
(***************************************************************************)
\* C18: across the get_ssl calls of one host an account key is generated and
\* an account registered only while no persisted account artifact is on disk; once a call that constructed the ACME client has returned, both
\* the account_key and the account_resource file exist, and a call that finds
\* them generates and registers nothing.
C18_AccountPersistedOnce ==
    \A p \in DOMAIN acctLast :
        acctLast[p].built =>
            /\ (acctLast[p].generated \/ acctLast[p].registered) =>
                   acctLast[p].onDisk = NoArtifacts
            /\ acctPc[p] = "idle" => (acctFiles.key # 0 /\ acctFiles.regr # 0)
            /\ (acctSelf[p].key # 0 /\ acctSelf[p].regr # 0) =>
                   (~acctLast[p].generated /\ ~acctLast[p].registered)

(***************************************************************************)
(* Claims: challenge token files                                           *)
(***************************************************************************)
\* C19: in every issuance attempt all token files of the attempt are on disk
\* before any challenge is answered, and when get_ssl has returned, on any
\* path (success, ACME failure, an exception at any step, the writing of the
\* tokens included), no token file written by the attempt remains.
C19_TokensWrittenThenRemoved ==
    /\ (tokPc = "answering" \/ (tokAnswered > 0 /\ tokPc \in {"installing", "finally"})) =>
           \A i \in 1..tokN : <<tokAttempt, i>> \in tokDisk
    /\ tokPc = "returned" => tokDisk = {}

\* an attempt that failed while writing its second token, after the file was
\* created, has returned
C19_Witness ==
    /\ tokPc = "returned"
    /\ tokN >= 2
    /\ Len(tokPaths) = 2
    /\ tokNext = 2

(***************************************************************************)
(* Claims: vhost regeneration after an issuance                            *)
(***************************************************************************)
\* C20: after a successful issuance through the activate-ssl scan or the
\* RefreshSsl endpoint the website is marked has_ssl, the vhost-regeneration
\* signal is emitted with the mark already in effect, and the nginx vhost it
\* regenerates uses the HTTPS template whenever the certificate chain and the
\* private key exist on disk.
C20_MarkedBeforeRegeneration ==
    (vhLast.entry # "none" /\ vhLast.activated) =>
        /\ vhHasSsl[vhLast.w]
        /\ vhLast.signalled
        /\ vhLast.hasAtSignal
        /\ (vhLast.filesAtSignal.cert /\ vhLast.filesAtSignal.key) =>
               vhTemplate[vhLast.w] = "https"

(***************************************************************************)
(* Claims: decoding of the validated path                                  *)
(***************************************************************************)
\* C21: for every path accepted by validate_path the returned value is a
\* fixed point of percent-decoding: one more unquote pass yields the same
\* string.
C21_ReturnedIsDecodedFixedPoint ==
    (valRes.called /\ valRes.ok) => unquote(valRes.value) = valRes.value

(***************************************************************************)
(* Claims: listing                                                         *)
(***************************************************************************)
\* C22: for every existing directory p under FILE_MANAGER_ROOT,
\* FileListSerializer.validate_path applied to quote(p), also when quoted
\* twice, returns exactly p without raising; a path that does not exist or
\* is not a directory is rejected.
C22_QuotedDirectoryAccepted ==
    lsLast.called =>
        /\ (lsLast.p \in lsDirs /\ lsLast.k >= 1) => lsLast.res = Accepted(lsLast.p)
        /\ (lsLast.p \notin lsDirs /\ lsLast.k = 0) => ~lsLast.res.ok

(***************************************************************************)
(* Claims: file-manager operations                                         *)
(***************************************************************************)
\* C23: a missing path is rejected by every mutation (create_item,
\* rename_item, move_data, generate_archive, upload) with no change of the
\* file system, and stands for the tenant's sandbox root only for listing.
C23_MissingPathRejected ==
    (mtLast.op # "none" /\ mtLast.path = <<>>) =>
        IF mtLast.op = "list"
          THEN mtLast.root = get_user_path(mtLast.user)
          ELSE ~mtLast.ok /\ mtLast.changed = {}


\* C24: no mutation initiated by a tenant succeeds on the tenant's sandbox
\* root or on one of its immediate children: is_allowed holds only for a
\* path at least two levels below the home of the owning tenant and for the
\* owner or an administrator, and every mutation is gated by it.
C24_MutationsGated ==
    (mtLast.op \in Mutations /\ ~mtLast.user.is_superuser) =>
        /\ mtLast.gated =>
              /\ Len(mtLast.path) > Len(get_user_path(mtLast.user)) + 1
              /\ Below(mtLast.path, get_user_path(mtLast.user))
              /\ Len(split(mtLast.path)) >= Len(split(get_user_path(mtLast.user))) + 2
        /\ mtLast.ok => mtLast.gated
        /\ \A q \in mtLast.changed :
              Len(split(q)) >= Len(split(get_user_path(mtLast.user))) + 2

(***************************************************************************)
(* Claims: archive round trip                                              *)
(***************************************************************************)
\* C25: create_zip(root, name, paths) followed by extract_zip(dest, archive)
\* reproduces under dest exactly the selected top-level entries of root and
\* their subtrees, each at the same path relative to root and with the same
\* content, also when a path below root holds the text of root again.
C25_RoundTripReproducesTree ==
    rtLast.ran =>
        rtLast.extracted =
            {[p |-> pathjoin(ZipDest, SubSeq(e.p, Len(ZipRoot) + 2, Len(e.p))),
              dir |-> e.dir, content |-> e.content] : e \in Written(rtTree, rtLast.selected)}

LetsEncryptStagingHost == "acme-staging-v02.api.letsencrypt.org"
LetsEncryptProductionHost == "acme-v02.api.letsencrypt.org"

\* C27: a FastcpAcme constructed with staging=True talks to the Let's Encrypt
\* staging directory, one constructed with staging=False to the production
\* directory.
C27_StagingFlagSelectsDirectory ==
    \A i \in 1..Len(dirLog) :
        dirLog[i].url[2] = IF dirLog[i].staging THEN LetsEncryptStagingHost
                           ELSE LetsEncryptProductionHost

(***************************************************************************)
(* Claims: challenges of an order                                          *)
(***************************************************************************)
\* C28: for an order with any number of authorizations every selected
\* HTTP-01 challenge is answered, and each challenge is answered with the
\* key-authorization response computed from that challenge itself.
C28_OwnResponsePerChallenge ==
    /\ \A k \in 1..Len(chAnswers) : chAnswers[k].response = chAnswers[k].chall
    /\ chPc = "finalized" =>
          \A i \in 1..Len(chOrder) :
              "http-01" \in chOrder[i] => \E k \in 1..Len(chAnswers) : chAnswers[k].chall = i

(***************************************************************************)
(* Claims: PHP version changes                                             *)
(***************************************************************************)
\* C29: after two interleaved runs of update_php_handler for the same
\* website have both completed, exactly one pool configuration exists for
\* the website: the later writer's, under the pool directory of the version
\* stored on the website's row, and none under another version's directory.
C29_OnePoolAfterConcurrentChanges ==
    (\A r \in PhpRequests : phpReq[r].pc = "done" /\ phpReq[r].sent) =>
        /\ {v \in PhpVersions : phpPools[v] # "none"} = {phpDb}
        /\ phpPools[phpDb] = phpWrites[Len(phpWrites)]

(***************************************************************************)
(* Claims: artifacts of websites on disk                                   *)
(***************************************************************************)
\* C30: for two distinct live websites (distinct slugs), a provisioning or
\* teardown operation on one leaves every on-disk artifact of the other
\* (directory tree, pool file, vhost files, socket, certificate files)
\* unchanged.
C30_OtherWebsiteUnchanged ==
    frLast.op # "none" => frLast.changed = {}

====
